---- MODULE Spec2Model ----
(***************************************************************************)
(* A model of the RCR estimation engine of src/python/rcr.py (the same     *)
(* routines appear in src/python/rcrbounds.py): simplify_moments,          *)
(* check_moments, lambdastar, thetastar, lambdafast, lambda0_fun,          *)
(* estimate_theta_segments, bracket_theta_star, brent, zbrent,             *)
(* estimate_theta and estimate_model.                                      *)
(*                                                                         *)
(* numpy float64 values are modelled as binary floating-point numbers of   *)
(* reduced width: a finite number is a pair <<m, e>> standing for m * 2^e  *)
(* with a signed mantissa of Prec bits (2^(Prec-1) <= |m| < 2^Prec), or    *)
(* zero; the exponent ranges over EMin..EMax; results are rounded to       *)
(* nearest (ties to even), overflow gives an infinity, underflow gives     *)
(* zero, and NaN and the two infinities behave as in IEEE 754.             *)
(***************************************************************************)
EXTENDS Integers, Sequences, FiniteSets, TLC

\* ------------------------------------------------------------------------
\* Width of the floating-point format.
\* ------------------------------------------------------------------------
\* Number of mantissa bits.
Prec == 12
\* Largest exponent of a finite number <<m, e>>.
EMax == 40
\* Smallest exponent of a nonzero number.
EMin == 0 - (EMax + 2 * Prec)

Zero == <<0, 0>>
NaN == <<0, EMax + 1>>
PInf == <<1, EMax + 1>>
NInf == <<0 - 1, EMax + 1>>

One == <<2 ^ (Prec - 1), 1 - Prec>>
Two == <<2 ^ (Prec - 1), 2 - Prec>>
Half == <<2 ^ (Prec - 1), 0 - Prec>>

IsNaN(x) == x = NaN
IsInf(x) == x = PInf \/ x = NInf
IsFinite(x) == x[2] <= EMax

IAbs(n) == IF n < 0 THEN 0 - n ELSE n
ISgn(n) == IF n < 0 THEN 0 - 1 ELSE IF n > 0 THEN 1 ELSE 0
IMin(a, b) == IF a <= b THEN a ELSE b
IMax(a, b) == IF a >= b THEN a ELSE b

RECURSIVE BitLenIn(_, _, _)
\* The number of bits of a > 0, known to lie in lo..hi (binary search).
BitLenIn(a, lo, hi) ==
    IF lo >= hi THEN lo
    ELSE LET mid == (lo + hi) \div 2
         IN  IF a < 2 ^ mid THEN BitLenIn(a, lo, mid) ELSE BitLenIn(a, mid + 1, hi)

\* The number of bits of a, 0 <= a < 2^31.
BitLen(a) == IF a = 0 THEN 0 ELSE BitLenIn(a, 1, 31)

\* a / 2^sh for a >= 0, rounded to nearest, ties to even.
RoundShift(a, sh) ==
    LET p == 2 ^ sh
        q == a \div p
        r == a % p
        half == p \div 2
    IN  IF r > half \/ (r = half /\ q % 2 = 1) THEN q + 1 ELSE q

\* The float m * 2^e for a mantissa of Prec bits: an infinity on overflow,
\* zero on underflow.
Fit(m, e) ==
    IF e > EMax THEN (IF m > 0 THEN PInf ELSE NInf)
    ELSE IF e < EMin THEN Zero
    ELSE <<m, e>>

\* The float of sign s nearest to a * 2^e, for an integer a > 0 of n bits.
Round(s, a, n, e) ==
    IF n <= Prec THEN Fit(s * a * 2 ^ (Prec - n), e + n - Prec)
    ELSE IF RoundShift(a, n - Prec) = 2 ^ Prec
         THEN Fit(s * 2 ^ (Prec - 1), e + n - Prec + 1)
    ELSE Fit(s * RoundShift(a, n - Prec), e + n - Prec)

\* The float nearest to M * 2^e, for an integer M.
Norm(M, e) == IF M = 0 THEN Zero ELSE Round(ISgn(M), IAbs(M), BitLen(IAbs(M)), e)

FromInt(n) == Norm(n, 0)

\* np.sign: -1, 0 or 1, and NaN for NaN.
FSign(x) ==
    IF IsNaN(x) THEN NaN
    ELSE IF x[1] > 0 THEN One
    ELSE IF x[1] < 0 THEN <<0 - 2 ^ (Prec - 1), 1 - Prec>>
    ELSE Zero
FNeg(x) == IF IsNaN(x) THEN NaN ELSE <<0 - x[1], x[2]>>
FAbs(x) == IF IsNaN(x) THEN NaN ELSE <<IAbs(x[1]), x[2]>>

FAdd(x, y) ==
    IF IsNaN(x) \/ IsNaN(y) THEN NaN
    ELSE IF IsInf(x) THEN (IF IsInf(y) /\ y # x THEN NaN ELSE x)
    ELSE IF IsInf(y) THEN y
    ELSE IF x[1] = 0 THEN y
    ELSE IF y[1] = 0 THEN x
    ELSE IF x[2] - y[2] > Prec + 1 THEN x
    ELSE IF y[2] - x[2] > Prec + 1 THEN y
    ELSE LET e == IMin(x[2], y[2])
         IN  Norm(x[1] * 2 ^ (x[2] - e) + y[1] * 2 ^ (y[2] - e), e)

FSub(x, y) == FAdd(x, FNeg(y))

FMul(x, y) ==
    IF IsNaN(x) \/ IsNaN(y) THEN NaN
    ELSE IF IsInf(x) \/ IsInf(y)
         THEN (IF x[1] = 0 \/ y[1] = 0 THEN NaN
               ELSE IF ISgn(x[1]) = ISgn(y[1]) THEN PInf ELSE NInf)
    ELSE Norm(x[1] * y[1], x[2] + y[2])

\* numpy division: x/0 is an infinity of the sign of x, 0/0 is NaN.
FDiv(x, y) ==
    IF IsNaN(x) \/ IsNaN(y) THEN NaN
    ELSE IF IsInf(x)
         THEN (IF IsInf(y) THEN NaN
               ELSE IF ISgn(x[1]) * (IF y[1] < 0 THEN 0 - 1 ELSE 1) > 0
                    THEN PInf ELSE NInf)
    ELSE IF IsInf(y) THEN Zero
    ELSE IF y[1] = 0
         THEN (IF x[1] = 0 THEN NaN ELSE IF x[1] > 0 THEN PInf ELSE NInf)
    ELSE IF x[1] = 0 THEN Zero
    ELSE LET num == IAbs(x[1]) * 2 ^ (Prec + 2)
             den == IAbs(y[1])
             q == num \div den
             \* a sticky bit keeps the rounding of Norm correct
             qs == IF num % den = 0 THEN 2 * q ELSE 2 * q + 1
         IN  Norm(ISgn(x[1]) * ISgn(y[1]) * qs, x[2] - y[2] - (Prec + 3))

RECURSIVE ISqrtIter(_, _, _)
\* Largest r in lo..hi with r * r <= n (binary search).
ISqrtIter(n, lo, hi) ==
    IF lo >= hi THEN lo
    ELSE LET mid == (lo + hi + 1) \div 2
         IN  IF mid * mid <= n THEN ISqrtIter(n, mid, hi)
             ELSE ISqrtIter(n, lo, mid - 1)

ISqrt(n) == ISqrtIter(n, 0, IMin(n, 46340))

\* Twice the integer square root r of n, plus a sticky bit when n is not r * r.
SqrtSticky(n, r) == IF r * r = n THEN 2 * r ELSE 2 * r + 1

\* The square root of m * 2^e for m > 0 and an even e.
SqrtEven(m, e) ==
    LET k == (29 - Prec) \div 2
        n == m * 2 ^ (2 * k)
    IN  Norm(SqrtSticky(n, ISqrt(n)), (e \div 2) - k - 1)

\* np.sqrt: NaN for a negative argument.
FSqrt(x) ==
    IF IsNaN(x) THEN NaN
    ELSE IF x = PInf THEN PInf
    ELSE IF x[1] < 0 THEN NaN
    ELSE IF x[1] = 0 THEN Zero
    ELSE IF x[2] % 2 # 0 THEN SqrtEven(2 * x[1], x[2] - 1)
    ELSE SqrtEven(x[1], x[2])

\* Comparisons; every comparison with NaN is false.
FLt(x, y) ==
    IF IsNaN(x) \/ IsNaN(y) THEN FALSE
    ELSE IF x = y THEN FALSE
    ELSE IF x = NInf \/ y = PInf THEN TRUE
    ELSE IF x = PInf \/ y = NInf THEN FALSE
    ELSE IF ISgn(x[1]) # ISgn(y[1]) THEN x[1] < y[1]
    ELSE IF x[1] > 0 THEN (x[2] < y[2] \/ (x[2] = y[2] /\ x[1] < y[1]))
    ELSE (x[2] > y[2] \/ (x[2] = y[2] /\ x[1] < y[1]))
FGt(x, y) == FLt(y, x)
FEq(x, y) == ~IsNaN(x) /\ ~IsNaN(y) /\ x = y
FNe(x, y) == ~FEq(x, y)
FLe(x, y) == FLt(x, y) \/ FEq(x, y)
FGe(x, y) == FLe(y, x)

\* The float nearest to the rational n / d (a decimal literal of the source).
FromRat(n, d) == FDiv(FromInt(n), FromInt(d))

\* Python's max(a, b) and min(a, b) of two floats: the first argument is kept
\* unless the second one compares greater (smaller).
PyMax2(a, b) == IF FGt(b, a) THEN b ELSE a
PyMin2(a, b) == IF FLt(b, a) THEN b ELSE a

\* np.maximum(a, b): NaN if either is.
np_maximum(a, b) == IF IsNaN(a) \/ IsNaN(b) THEN NaN ELSE IF FGt(b, a) THEN b ELSE a

\* ------------------------------------------------------------------------
\* Sequences of floats (numpy 1-d arrays) and matrices (sequences of rows).
\* ------------------------------------------------------------------------
\* The sequence with the entries of f, computed once.
AsSeq(f) == f \o <<>>

RECURSIVE SumSeq(_)
SumSeq(s) == IF s = <<>> THEN Zero ELSE FAdd(SumSeq(SubSeq(s, 1, Len(s) - 1)), s[Len(s)])

\* The dot product of two vectors of the same length (u @ v).
Dot(u, v) == SumSeq([i \in 1..Len(u) |-> FMul(u[i], v[i])])

\* The vector-matrix product u @ A for an n-vector u and an n x n matrix A.
VecMat(u, A) ==
    AsSeq([j \in 1..Len(u) |-> SumSeq([i \in 1..Len(u) |-> FMul(u[i], A[i][j])])])

RECURSIVE PivotScan(_, _, _, _, _)
\* The first row among best, r..n whose entry in column c is largest in
\* magnitude (the pivot search of the LU factorisation).
PivotScan(A, c, r, n, best) ==
    IF r > n THEN best
    ELSE IF FGt(FAbs(A[r][c]), FAbs(A[best][c])) THEN PivotScan(A, c, r + 1, n, r)
    ELSE PivotScan(A, c, r + 1, n, best)

\* Rows c and p of A exchanged.
SwapRows(A, c, p) ==
    AsSeq([r \in 1..Len(A) |-> IF r = c THEN A[p] ELSE IF r = p THEN A[c] ELSE A[r]])

\* Row c of S divided by the pivot.
PivotRow(S, c) == AsSeq([j \in 1..Len(S[c]) |-> FDiv(S[c][j], S[c][c])])

\* Column c of S cleared with the scaled pivot row prow.
ClearColumn(S, c, prow) ==
    AsSeq([r \in 1..Len(S) |->
        IF r = c THEN prow
        ELSE AsSeq([j \in 1..Len(prow) |-> FSub(S[r][j], FMul(S[r][c], prow[j]))])])

RECURSIVE GaussJordan(_, _, _)
\* Elimination with partial pivoting on the augmented n x 2n matrix A, from
\* column c on, rows c and p having been exchanged when p > 0.  The result is
\* the reduced matrix, or <<>> when a pivot is exactly zero
\* (numpy.linalg.inv raises LinAlgError: singular matrix).
GaussJordan(A, c, p) ==
    IF c > Len(A) THEN A
    ELSE IF p = 0 THEN GaussJordan(SwapRows(A, c, PivotScan(A, c, c + 1, Len(A), c)), c, c)
    ELSE IF A[c][c] = Zero THEN <<>>
    ELSE GaussJordan(ClearColumn(A, c, PivotRow(A, c)), c + 1, 0)

\* XX with the identity matrix appended on the right.
Augmented(XX) ==
    AsSeq([r \in 1..Len(XX) |-> AsSeq([j \in 1..(2 * Len(XX)) |->
        IF j <= Len(XX) THEN XX[r][j]
        ELSE IF j - Len(XX) = r THEN One ELSE Zero])])

\* The right half of the reduced matrix.
RightHalf(red, n) ==
    IF n > 0 /\ red = <<>> THEN [ok |-> FALSE, m |-> <<>>]
    ELSE [ok |-> TRUE, m |-> AsSeq([r \in 1..n |-> AsSeq([j \in 1..n |-> red[r][j + n]])])]

\* numpy.linalg.inv(XX): [ok |-> FALSE] stands for LinAlgError.
inv(XX) == RightHalf(GaussJordan(Augmented(XX), 1, 0), Len(XX))

\* ------------------------------------------------------------------------
\* simplify_moments
\* ------------------------------------------------------------------------
\* k = int((np.sqrt(1 + 8 * m) + 1) / 2)
KOfLen(m) == (ISqrt(1 + 8 * m) + 1) \div 2

\* The assertion  2*(m + 1) == k ** 2 + k  of simplify_moments.
LengthAssertion(m, k) == 2 * (m + 1) = k * k + k

\* Python indexing a[idx] of a sequence of length n with a possibly negative
\* index: the 1-based position, or 0 when the index is out of bounds.
PyPos(idx, n) ==
    IF idx >= 0 /\ idx < n THEN idx + 1
    ELSE IF idx < 0 /\ idx + n >= 0 THEN idx + n + 1
    ELSE 0

\* Position in mvtmp (0-based) of entry (i, j), i <= j, of the k x k matrix
\* filled row by row from the upper triangle.
TriIndex(i, j, k) == i * k - ((i * (i - 1)) \div 2) + (j - i)

\* xtmp of lines 731-741: the full cross-product matrix E[WW'].
CrossProducts(mv, k) ==
    AsSeq([i \in 1..k |-> AsSeq([j \in 1..k |->
        (<<One>> \o mv)[TriIndex(IMin(i, j) - 1, IMax(i, j) - 1, k) + 1]])])

\* xtmp[row, 0:(k - 2)]
RowHead(xtmp, row, k) == AsSeq([j \in 1..(k - 2) |-> xtmp[row][j]])

\* XX of line 743.
LeadingBlock(xtmp, k) == AsSeq([i \in 1..(k - 2) |-> RowHead(xtmp, i, k)])

\* A variant of Projected that takes the product as zero when inv(XX) raised.
ProjectedOrZero(u, invXX, v, mean2) ==
    IF invXX.ok THEN FSub(Dot(VecMat(u, invXX.m), v), mean2) ELSE FSub(Zero, mean2)

\* u.T @ invXX @ v - mean2 of lines 763-770; NaN when inv(XX) raised.
Projected(u, invXX, v, mean2) ==
    IF invXX.ok THEN FSub(Dot(VecMat(u, invXX.m), v), mean2) ELSE NaN

\* The forced correlation of the k = 4 case (lines 781-784).
ForcedCov(s3, s4, c) == FMul(FSign(c), FSqrt(FMul(s3, s4)))

\* A variant of SixthMoment that forces the correlation whatever k is.
AlwaysForced(k, s3, s4, c) == ForcedCov(s3, s4, c)

\* The value returned for the sixth moment, given the computed covariance c.
SixthMoment(k, s3, s4, c) == IF k = 4 THEN ForcedCov(s3, s4, c) ELSE c

\* The value simplify_moments returns (lines 781-785): exc is the exception
\* raised, sm the six simplified moments, c the value of cov(Yhat,Zhat)
\* computed by partialling out, singular whether inv(XX) raised LinAlgError.
Simplified(k, varY, varZ, covYZ, varYhat, varZhat, c, singular) ==
    [exc |-> "none",
     sm |-> <<varY, varZ, covYZ, varYhat, varZhat, SixthMoment(k, varYhat, varZhat, c)>>,
     c |-> c,
     singular |-> singular]

\* Lines 749-785, given the means ey and ez, the vectors XY and XZ and the
\* result of inv(XX).
Moments(mv, m, k, ey, ez, XY, XZ, invXX) ==
    Simplified(k,
               FSub(mv[PyPos(m - 3, m)], FMul(ey, ey)),
               FSub(mv[PyPos(m - 1, m)], FMul(ez, ez)),
               FSub(mv[PyPos(m - 2, m)], FMul(ez, ey)),
               Projected(XY, invXX, XY, FMul(ey, ey)),
               Projected(XZ, invXX, XZ, FMul(ez, ez)),
               Projected(XY, invXX, XZ, FMul(ez, ey)),
               ~invXX.ok)

\* Lines 731-785, given xtmp.
Partialled(mv, m, k, xtmp) ==
    Moments(mv, m, k, mv[PyPos(k - 3, m)], mv[PyPos(k - 2, m)],
            RowHead(xtmp, PyPos(k - 2, k), k), RowHead(xtmp, PyPos(k - 1, k), k),
            inv(LeadingBlock(xtmp, k)))

Raised(e) == [exc |-> e, sm |-> <<>>, c |-> NaN, singular |-> FALSE]

\* simplify_moments(moment_vector) for a vector of length m, with k of line 729.
Simplify(mv, m, k) ==
    IF ~LengthAssertion(m, k) THEN Raised("AssertionError")
    ELSE IF PyPos(m - 3, m) = 0 \/ PyPos(k - 3, m) = 0
            \/ PyPos(m - 1, m) = 0 \/ PyPos(k - 2, m) = 0
            \/ PyPos(m - 2, m) = 0 THEN Raised("IndexError")
    ELSE Partialled(mv, m, k, CrossProducts(mv, k))

simplify_moments(mv) == Simplify(mv, Len(mv), KOfLen(Len(mv)))

\* The six simplified moments of a moment vector of a valid length.
SM(mv) == simplify_moments(mv).sm

\* ------------------------------------------------------------------------
\* check_moments
\* ------------------------------------------------------------------------
AllFinite(s) == \A i \in 1..Len(s) : IsFinite(s[i])

\* |cov| > sqrt(var1 * var2) (lines 815-822).
ExceedsBound(cov, var1, var2) == FGt(FAbs(cov), FSqrt(FMul(var1, var2)))

\* valid of check_moments (lines 792-822).
MomentsValid(sm) ==
    /\ AllFinite(sm)
    /\ ~FLt(sm[1], Zero)
    /\ ~FLt(sm[2], Zero)
    /\ ~FLt(sm[4], Zero)
    /\ ~FLt(sm[5], Zero)
    /\ ~ExceedsBound(sm[3], sm[1], sm[2])
    /\ ~ExceedsBound(sm[6], sm[4], sm[5])

\* identified of check_moments (lines 826-838), given valid.
MomentsIdentified(sm, valid) ==
    /\ valid
    /\ ~FEq(sm[1], Zero)
    /\ ~FEq(sm[2], Zero)
    /\ ~FEq(sm[4], Zero)
    /\ ~FEq(sm[4], sm[1])

\* The warnings check_moments issues, in order.
CheckWarnings(sm) ==
    (IF ~AllFinite(sm)
     THEN (IF AllFinite(SubSeq(sm, 1, 3)) /\ IsNaN(sm[5]) /\ IsNaN(sm[6])
           THEN <<"Invalid data: nonsingular X'X matrix.">>
           ELSE <<"Invalid data: unknown issue">>)
     ELSE <<>>)
    \o (IF FLt(sm[1], Zero) THEN <<"Invalid data: var(y) < 0">> ELSE <<>>)
    \o (IF FLt(sm[2], Zero) THEN <<"Invalid data: var(z) < 0">> ELSE <<>>)
    \o (IF FLt(sm[4], Zero) THEN <<"Invalid data: var(yhat) < 0">> ELSE <<>>)
    \o (IF FLt(sm[5], Zero) THEN <<"Invalid data: var(zhat) < 0">> ELSE <<>>)
    \o (IF ExceedsBound(sm[3], sm[1], sm[2])
        THEN <<"Invalid data: |cov(y,z)| > sqrt(var(y)*var(z))">> ELSE <<>>)
    \o (IF ExceedsBound(sm[6], sm[4], sm[5])
        THEN <<"Invalid data: cov(yh,zh) > sqrt(var(yh)*var(zh))">> ELSE <<>>)
    \o (IF FEq(sm[1], Zero) THEN <<"Model not identified: var(y) = 0">> ELSE <<>>)
    \o (IF FEq(sm[2], Zero) THEN <<"Model not identified: var(z) = 0">> ELSE <<>>)
    \o (IF FEq(sm[4], Zero) THEN <<"Model not identified: var(yhat) = 0">> ELSE <<>>)
    \o (IF FEq(sm[4], sm[1])
        THEN <<"Model not identified: y is an exact linear function of X">> ELSE <<>>)

\* What check_moments does with the simplified moments: the pair returned and
\* the warnings issued.
Checked(sm, valid) ==
    [valid |-> valid,
     identified |-> MomentsIdentified(sm, valid),
     warnings |-> CheckWarnings(sm)]

check_moments(mv) == Checked(SM(mv), MomentsValid(SM(mv)))

\* ------------------------------------------------------------------------
\* The closed forms lambda_star, theta_star, lambda(theta), lambda(0)
\* ------------------------------------------------------------------------
\* lambdastar, given the simplified moments (lines 853-854).
LambdaStar(sm) ==
    IF FEq(sm[5], Zero) THEN PInf
    ELSE FSqrt(FSub(np_maximum(FDiv(sm[2], sm[5]), One), One))

lambdastar(mv) == LambdaStar(SM(mv))

\* thetastar, given the simplified moments (line 866).
ThetaStar(sm) == IF FEq(sm[5], Zero) THEN NaN ELSE FDiv(sm[6], sm[5])

thetastar(mv) == ThetaStar(SM(mv))

\* a - 2.0 * theta * b + theta ** 2 * c
Quadratic(theta, a, b, c) ==
    FAdd(FSub(a, FMul(FMul(Two, theta), b)), FMul(FMul(theta, theta), c))

lf0_num(theta, sm) == Quadratic(theta, sm[4], sm[6], sm[5])

lf0_denom(theta, sm) ==
    Quadratic(theta, FSub(sm[1], sm[4]), FSub(sm[3], sm[6]), FSub(sm[2], sm[5]))

lf1_num(theta, sm) == FSub(FSub(sm[3], sm[6]), FMul(theta, FSub(sm[2], sm[5])))

lf1_denom(theta, sm) == FSub(sm[6], FMul(theta, sm[5]))

\* A variant of LambdaMask without the test of lf1_denom.
MaskWithoutPole(n0, d0, d1) ==
    /\ FNe(d0, Zero)
    /\ FEq(FSign(n0), FSign(d0))

\* msk of lambdafast (lines 887-889), from the two numerators and denominators.
LambdaMask(n0, d0, d1) ==
    /\ FNe(d0, Zero)
    /\ FNe(d1, Zero)
    /\ FEq(FSign(n0), FSign(d0))

\* The value lambdafast stores at a position where msk holds (lines 891-892).
LambdaValue(n0, d0, n1, d1) == FMul(FDiv(n1, d1), FSqrt(FDiv(n0, d0)))

\* The entry of lambda_fast (lines 890-892).
LambdaEntry(n0, d0, n1, d1) ==
    IF LambdaMask(n0, d0, d1) THEN LambdaValue(n0, d0, n1, d1) ELSE NaN

\* One entry of lambdafast.
Lambda1(theta, sm) ==
    LambdaEntry(lf0_num(theta, sm), lf0_denom(theta, sm),
                lf1_num(theta, sm), lf1_denom(theta, sm))

\* lambdafast(theta, simplified_moments) for an array theta.
lambdafast(thetas, sm) == AsSeq([i \in 1..Len(thetas) |-> Lambda1(thetas[i], sm)])

negative_lambdafast(thetas, sm) ==
    AsSeq([i \in 1..Len(thetas) |-> FNeg(Lambda1(thetas[i], sm))])

\* lambdafun(moment_vector, theta) for a scalar theta, s being what
\* simplify_moments(moment_vector) did; NaN stands for its exception.
LambdaOf(theta, s) == IF s.exc # "none" THEN NaN ELSE Lambda1(theta, s.sm)

lambdafun(mv, theta) == LambdaOf(theta, simplify_moments(mv))

\* lambda0_fun, given the simplified moments (lines 917-926).
Lambda0(sm) ==
    IF /\ FNe(sm[1], sm[4])
       /\ FNe(sm[6], Zero)
       /\ FEq(FSign(sm[4]), FSign(FSub(sm[1], sm[4])))
    THEN FMul(FDiv(FSub(sm[3], sm[6]), sm[6]), FSqrt(FDiv(sm[4], FSub(sm[1], sm[4]))))
    ELSE NaN

lambda0_fun(mv) == Lambda0(SM(mv))

\* lambda_minus_lambda(theta, [lambda] + simplified_moments) for a scalar theta.
lambda_minus_lambda(theta, lam, sm) == FSub(Lambda1(theta, sm), lam)

\* ------------------------------------------------------------------------
\* Constants of the source, in the floating-point format of the model
\* ------------------------------------------------------------------------
\* np.finfo(float).eps: the gap between 1.0 and the next float.
Eps == <<2 ^ (Prec - 1), 2 - 2 * Prec>>
\* sys.float_info.max: the largest finite float.
FloatMax == <<2 ^ Prec - 1, EMax>>
\* The tolerance 1.0e-200 passed to zbrent: a power of two two thirds of the
\* way down the exponent range, as 1e-200 is in float64.
Tol200 == <<2 ^ (Prec - 1), (2 * EMin) \div 3>>
\* Iteration cap of brent and zbrent.
itmax == 1000

\* The messages that zbrent (lines 1113, 1164) and brent (line 1100) pass to
\* write_to_logfile.
ZbrentUnbracketed == "Error in zbrent: Root is not bracketed"
ZbrentCapped == "zbrent: exceeded maximum iterations"
BrentCapped == "Brent exceeded maximum iterations.\n"

SameSign(x, y) == (FGt(x, Zero) /\ FGt(y, Zero)) \/ (FLt(x, Zero) /\ FLt(y, Zero))

\* ------------------------------------------------------------------------
\* zbrent (lines 1104-1165), for func = lambda_minus_lambda
\* ------------------------------------------------------------------------
\* Lines 1118-1122 on the locals st; deset records that d and e are assigned.
Rebracket(st) ==
    IF SameSign(st.fb, st.fc)
    THEN [st EXCEPT !.c = st.a, !.fc = st.fa,
                    !.d = FSub(st.b, st.a), !.e = FSub(st.b, st.a), !.deset = TRUE]
    ELSE st

\* Lines 1123-1129.
SwapBest(st) ==
    IF FLt(FAbs(st.fc), FAbs(st.fb))
    THEN [st EXCEPT !.a = st.b, !.b = st.c, !.c = st.b,
                    !.fa = st.fb, !.fb = st.fc, !.fc = st.fb]
    ELSE st

\* p of lines 1139 and 1144, before its sign is dropped.
InterpP(st, xm, s, q, r) ==
    IF FEq(st.a, st.c) THEN FMul(FMul(Two, xm), s)
    ELSE FMul(s, FSub(FMul(FMul(FMul(Two, xm), q), FSub(q, r)),
                      FMul(FSub(st.b, st.a), FSub(r, One))))

\* q of lines 1140 and 1145, before its sign is set.
InterpQ(st, s, q, r) ==
    IF FEq(st.a, st.c) THEN FSub(One, s)
    ELSE FMul(FMul(FSub(q, One), FSub(r, One)), FSub(s, One))

\* Lines 1149-1154 with p and q as after line 1148: the new <<d, e>>.
InterpStep(st, xm, tol1, p, q) ==
    IF FLt(FMul(Two, p),
           PyMin2(FSub(FMul(FMul(FromInt(3), xm), q), FAbs(FMul(tol1, q))),
                  FAbs(FMul(st.e, q))))
    THEN <<FDiv(p, q), st.d>>
    ELSE <<xm, xm>>

\* Lines 1146-1154.
InterpSigned(st, xm, tol1, p, q) ==
    InterpStep(st, xm, tol1, FAbs(p), IF FGt(p, Zero) THEN FNeg(q) ELSE q)

\* Lines 1137-1154, given s, q and r.
Interp(st, xm, tol1, s, q, r) ==
    InterpSigned(st, xm, tol1, InterpP(st, xm, s, q, r), InterpQ(st, s, q, r))

\* Lines 1136-1157: the new <<d, e>>.
StepSize(st, xm, tol1) ==
    IF FGe(FAbs(st.e), tol1) /\ FGt(FAbs(st.fa), FAbs(st.fb))
    THEN Interp(st, xm, tol1, FDiv(st.fb, st.fa), FDiv(st.fa, st.fc), FDiv(st.fb, st.fc))
    ELSE <<xm, xm>>

\* Lines 1158-1161 with the new b.
MoveTo(st, de, b, lam, sm) ==
    [st EXCEPT !.a = st.b, !.fa = st.fb, !.b = b,
               !.fb = lambda_minus_lambda(b, lam, sm), !.d = de[1], !.e = de[2]]

\* Lines 1158-1161.
Move(st, xm, tol1, de, lam, sm) ==
    MoveTo(st, de,
           IF FGt(FAbs(de[1]), tol1) THEN FAdd(st.b, de[1])
           ELSE FAdd(st.b, FMul(tol1, FSign(xm))),
           lam, sm)

\* Lines 1133-1161; st.done is set by the break, st.exc by a read of the
\* unassigned local e.
Converge(st, xm, tol1, lam, sm) ==
    IF FLe(FAbs(xm), tol1) \/ FEq(st.fb, Zero)
    THEN [st EXCEPT !.done = TRUE, !.solution = st.b]
    ELSE IF ~st.deset THEN [st EXCEPT !.exc = "UnboundLocalError"]
    ELSE Move(st, xm, tol1, StepSize(st, xm, tol1), lam, sm)

\* Lines 1131-1161.
Tolerances(st, tol, lam, sm) ==
    Converge(st, FMul(Half, FSub(st.c, st.b)),
             FAdd(FMul(FMul(Two, Eps), FAbs(st.b)), FMul(Half, tol)), lam, sm)

\* One pass of the loop body on the locals st.
ZbrentBody(st, tol, lam, sm) == Tolerances(SwapBest(Rebracket(st)), tol, lam, sm)

\* One iteration of the for loop: nothing once the loop was left.
ZbrentIter(st, tol, lam, sm) ==
    IF st.done \/ st.exc # "none" THEN st
    ELSE [ZbrentBody(st, tol, lam, sm) EXCEPT !.iter = st.iter + 1]

RECURSIVE ZbrentLoop(_, _, _, _, _)
\* n iterations of the for loop (evaluated by halving, so that the nesting of
\* the evaluation is logarithmic in n).
ZbrentLoop(st, n, tol, lam, sm) ==
    IF n = 0 \/ st.done \/ st.exc # "none" THEN st
    ELSE IF n = 1 THEN ZbrentIter(st, tol, lam, sm)
    ELSE ZbrentLoop(ZbrentLoop(st, n \div 2, tol, lam, sm), n - n \div 2, tol, lam, sm)

\* Lines 1108-1116: the locals before the loop.
ZbrentStart(x1, x2, fa, fb) ==
    [a |-> x1, b |-> x2, c |-> x2, fa |-> fa, fb |-> fb, fc |-> fb,
     d |-> NaN, e |-> NaN, deset |-> FALSE,
     done |-> FALSE, exc |-> "none", solution |-> NaN,
     iter |-> 0, capped |-> FALSE, unbracketed |-> SameSign(fa, fb)]

\* Lines 1162-1165.
ZbrentEnd(fin) ==
    IF fin.exc = "none" /\ fin.iter = itmax
    THEN [fin EXCEPT !.solution = fin.b, !.capped = TRUE]
    ELSE fin

\* What a call of zbrent that ended as fin has written to the log file.
ZbrentLogged(fin) ==
    (IF fin.unbracketed THEN <<ZbrentUnbracketed>> ELSE <<>>)
    \o (IF fin.capped THEN <<ZbrentCapped>> ELSE <<>>)

\* zbrent(lambda_minus_lambda, x1, x2, tol, [lam] + sm): the final locals; solution
\* is the value returned, iter the number of passes made, unbracketed whether
\* "Root is not bracketed" was logged, capped whether the cap message was.
zbrent(x1, x2, tol, lam, sm) ==
    ZbrentEnd(ZbrentLoop(ZbrentStart(x1, x2, lambda_minus_lambda(x1, lam, sm),
                                     lambda_minus_lambda(x2, lam, sm)),
                         itmax, tol, lam, sm))

\* ------------------------------------------------------------------------
\* brent (lines 1022-1101), for func = lambdafast or negative_lambdafast
\* ------------------------------------------------------------------------
\* The tolerance 1.0e-10 passed to brent: a power of two two thirds of the way
\* from 1 down to eps, as 1e-10 is in float64.
Tol10 == <<2 ^ (Prec - 1), (1 - Prec) - ((2 * (Prec - 1)) \div 3)>>
cgold == FromRat(3819660, 10000000)
zeps == FMul(FromRat(1, 1000), Eps)

\* func(x, xopt) of brent: lambdafast, or negative_lambdafast when neg.
BrentFunc(neg, x, sm) == IF neg THEN FNeg(Lambda1(x, sm)) ELSE Lambda1(x, sm)

\* Lines 1062-1063 and 1070-1071: the golden-section step <<d, e>>.
Golden(st, xm) ==
    IF FGe(st.x, xm) THEN <<FMul(cgold, FSub(st.a, st.x)), FSub(st.a, st.x)>>
    ELSE <<FMul(cgold, FSub(st.b, st.x)), FSub(st.b, st.x)>>

\* Lines 1065-1068 with u = x + d: the parabolic step <<d, e>>.
ParabolicAt(st, xm, tol1, d, u) ==
    IF FLt(FSub(u, st.a), FMul(Two, tol1)) \/ FLt(FSub(st.b, u), FMul(Two, tol1))
    THEN <<FMul(tol1, FSign(FSub(xm, st.x))), st.d>>
    ELSE <<d, st.d>>

\* Lines 1057-1068 with p and q as after line 1056.
Parabolic(st, xm, tol1, p, q) ==
    IF \/ FGe(FAbs(p), FAbs(FMul(FMul(Half, q), st.e)))
       \/ FLe(p, FMul(q, FSub(st.a, st.x)))
       \/ FGe(p, FMul(q, FSub(st.b, st.x)))
    THEN Golden(st, xm)
    ELSE ParabolicAt(st, xm, tol1, FDiv(p, q), FAdd(st.x, FDiv(p, q)))

\* Lines 1053-1068 with p of line 1052 and q of line 1053.
ParabolicSigned(st, xm, tol1, p, q) ==
    Parabolic(st, xm, tol1, IF FGt(q, Zero) THEN FNeg(p) ELSE p, FAbs(q))

\* Lines 1052-1068 with r of line 1050 and q of line 1051.
ParabolicFit(st, xm, tol1, r, q) ==
    ParabolicSigned(st, xm, tol1,
                    FSub(FMul(FSub(st.x, st.v), q), FMul(FSub(st.x, st.w), r)),
                    FMul(Two, FSub(q, r)))

\* Lines 1049-1071: the new <<d, e>>.
BrentStep(st, xm, tol1) ==
    IF FGt(FAbs(st.e), tol1)
    THEN ParabolicFit(st, xm, tol1,
                      FMul(FSub(st.x, st.w), FSub(st.fx, st.fv)),
                      FMul(FSub(st.x, st.v), FSub(st.fx, st.fw)))
    ELSE Golden(st, xm)

\* Lines 1085-1097 with the bracket already updated in s1.
Demote(st, s1, u, fu) ==
    IF FLe(fu, st.fw) \/ FEq(st.w, st.x)
    THEN [s1 EXCEPT !.v = st.w, !.fv = st.fw, !.w = u, !.fw = fu]
    ELSE IF FLe(fu, st.fv) \/ FEq(st.v, st.x) \/ FEq(st.v, st.w)
    THEN [s1 EXCEPT !.v = u, !.fv = fu]
    ELSE s1

\* Lines 1074-1097 with u and fu = func(u).
Update(st, de, u, fu) ==
    IF FLe(fu, st.fx)
    THEN [st EXCEPT !.a = IF FGe(u, st.x) THEN st.x ELSE st.a,
                    !.b = IF FGe(u, st.x) THEN st.b ELSE st.x,
                    !.v = st.w, !.w = st.x, !.x = u,
                    !.fv = st.fw, !.fw = st.fx, !.fx = fu,
                    !.d = de[1], !.e = de[2]]
    ELSE Demote(st, [st EXCEPT !.a = IF FLt(u, st.x) THEN u ELSE st.a,
                               !.b = IF FLt(u, st.x) THEN st.b ELSE u,
                               !.d = de[1], !.e = de[2]], u, fu)

\* Lines 1072-1097 with u of line 1072.
Probe(st, de, u, neg, sm) == Update(st, de, u, BrentFunc(neg, u, sm))

\* Lines 1072-1097.
Trial(st, tol1, de, neg, sm) ==
    Probe(st, de,
          IF FGe(FAbs(de[1]), tol1) THEN FAdd(st.x, de[1])
          ELSE FAdd(st.x, FMul(tol1, FSign(de[1]))),
          neg, sm)

\* Lines 1046-1097 with xm and tol1.
BrentCheck(st, xm, tol1, neg, sm) ==
    IF FLe(FAbs(FSub(st.x, xm)), FSub(FMul(Two, tol1), FMul(Half, FSub(st.b, st.a))))
    THEN [st EXCEPT !.done = TRUE, !.solution = st.x]
    ELSE Trial(st, tol1, BrentStep(st, xm, tol1), neg, sm)

\* One pass of the loop body on the locals st.
BrentBody(st, tol, neg, sm) ==
    BrentCheck(st, FMul(Half, FAdd(st.a, st.b)), FAdd(FMul(tol, FAbs(st.x)), zeps),
               neg, sm)

BrentIter(st, tol, neg, sm) ==
    IF st.done THEN st
    ELSE [BrentBody(st, tol, neg, sm) EXCEPT !.iter = st.iter + 1]

RECURSIVE BrentLoop(_, _, _, _, _)
\* n iterations of the for loop (evaluated by halving).
BrentLoop(st, n, tol, neg, sm) ==
    IF n = 0 \/ st.done THEN st
    ELSE IF n = 1 THEN BrentIter(st, tol, neg, sm)
    ELSE BrentLoop(BrentLoop(st, n \div 2, tol, neg, sm), n - n \div 2, tol, neg, sm)

\* Lines 1027-1041: the locals before the loop, with fx = func(bx).
BrentStart(ax, bx, cx, fx) ==
    [a |-> PyMin2(ax, cx), b |-> PyMax2(ax, cx),
     v |-> bx, w |-> bx, x |-> bx, e |-> Zero, d |-> Zero,
     fx |-> fx, fv |-> fx, fw |-> fx,
     done |-> FALSE, solution |-> NaN, iter |-> 0, capped |-> FALSE]

\* A variant of BrentEnd that leaves brent_solution as the loop left it.
BrentEndUnassigned(fin) == fin

\* Lines 1098-1101.
BrentEnd(fin) ==
    IF fin.iter = itmax THEN [fin EXCEPT !.solution = fin.x, !.capped = TRUE] ELSE fin

\* brent(ax, bx, cx, func, tol, xopt): the final locals; solution is the value
\* returned, iter the number of passes made, capped whether "Brent exceeded
\* maximum iterations" was logged.
brent(ax, bx, cx, neg, tol, sm) ==
    BrentEnd(BrentLoop(BrentStart(ax, bx, cx, BrentFunc(neg, bx, sm)),
                       itmax, tol, neg, sm))

\* ------------------------------------------------------------------------
\* numpy array helpers
\* ------------------------------------------------------------------------
\* x sorts before y in np.sort: NaN sorts last.
SortsBefore(x, y) == IF IsNaN(y) THEN ~IsNaN(x) ELSE FLt(x, y)

\* np.sort of a 1-d array.
np_sort(s) == SortSeq(s, SortsBefore)

\* np.sum(vec < x)
CountLess(vec, x) == Cardinality({n \in 1..Len(vec) : FLt(vec[n], x)})

\* The entries of vec at the positions idx, in the order of the positions.
Picked(vec, idx) ==
    AsSeq([q \in 1..Cardinality(idx) |->
        vec[CHOOSE n \in idx : Cardinality({m \in idx : m <= n}) = q]])

\* vec[mask] for a boolean mask of the same length.
SelectMask(vec, mask) == Picked(vec, {n \in 1..Len(vec) : mask[n]})

\* ------------------------------------------------------------------------
\* bracket_theta_star (lines 436-487)
\* ------------------------------------------------------------------------
\* Number of candidate brackets tried.
ntrials == 100
Tenth == FromRat(1, 10)

\* Lines 477-479, with tmp2 = lambdafast(candidate, sm).
GoodLambda(tmp2, true_limit) ==
    /\ IsFinite(tmp2[1]) /\ IsFinite(tmp2[2])
    /\ FGt(FMul(tmp2[1], FSign(true_limit[1])), Zero)
    /\ FGt(FMul(tmp2[2], FSign(true_limit[2])), Zero)

\* The condition of lines 475-479 on a candidate.
GoodBracket(cand, theta_star, true_limit, sm) ==
    /\ FLt(cand[1], theta_star)
    /\ FGt(cand[2], theta_star)
    /\ GoodLambda(lambdafast(cand, sm), true_limit)

\* theta_star -+ w
Around(theta_star, w) == <<FAdd(theta_star, FNeg(w)), FAdd(theta_star, w)>>

\* The candidate of trial i, given pw = 0.1 ** i (lines 459-460).
Candidate(theta_star, pw) ==
    Around(theta_star, FMul(PyMax2(FAbs(theta_star), One), pw))

RECURSIVE FPow(_, _)
\* x ** n for an integer n >= 0.
FPow(x, n) ==
    IF n = 0 THEN One
    ELSE IF n = 1 THEN x
    ELSE FMul(FPow(x, n \div 2), FPow(x, n - n \div 2))

\* 0.1 ** i for the i of lines 459 and 620, computed once.
TenthPowers == AsSeq([i \in 1..ntrials |-> FPow(Tenth, i)])

\* The trials of the for loop that satisfy the condition of lines 475-479.
GoodTrials(theta_star, true_limit, sm) ==
    {i \in 1..ntrials :
        GoodBracket(Candidate(theta_star, TenthPowers[i]), theta_star, true_limit, sm)}

SetMax(S) == CHOOSE x \in S : \A y \in S : y <= x

\* The trial whose candidate is kept, out of the qualifying trials good:
\* every qualifying trial overwrites j and bracket, so it is the last one.
KeptTrial(good) == SetMax(good)

\* A variant of BracketLoop that does not warn.
BracketLoopSilent(theta_star, good) ==
    IF good = {} THEN [bracket |-> <<>>, j |-> 0, warned |-> FALSE]
    ELSE [bracket |-> Candidate(theta_star, TenthPowers[KeptTrial(good)]),
          j |-> KeptTrial(good), warned |-> FALSE]

\* j and bracket after the for loop, and whether line 486 warns.
BracketLoop(theta_star, good) ==
    IF good = {} THEN [bracket |-> <<>>, j |-> 0, warned |-> TRUE]
    ELSE [bracket |-> Candidate(theta_star, TenthPowers[KeptTrial(good)]),
          j |-> KeptTrial(good), warned |-> FALSE]

\* true_limit of lines 450-452, given the sign.
TrueLimit(sgn) == <<FMul(FMul(One, sgn), FloatMax), FMul(FMul(FNeg(One), sgn), FloatMax)>>

\* Lines 446-487 with lim = sm[5] * sm[1] / sm[4].
Bracket(sm, theta_star, lim) ==
    IF FEq(sm[3], lim) THEN [bracket |-> <<>>, j |-> 0, warned |-> FALSE]
    ELSE BracketLoop(theta_star,
                     GoodTrials(theta_star, TrueLimit(FSign(FSub(sm[3], lim))), sm))

\* bracket_theta_star, given the simplified moments.
BracketThetaStar(sm) == Bracket(sm, ThetaStar(sm), FDiv(FMul(sm[6], sm[2]), sm[5]))

\* bracket_theta_star(moment_vector): bracket is the pair returned, <<>> for
\* None; j the last trial that qualified; warned whether the warning
\* "Unable to find a good bracket for theta_star" was issued.
bracket_theta_star(mv) == BracketThetaStar(SM(mv))

\* ------------------------------------------------------------------------
\* estimate_theta_segments (lines 334-433)
\* ------------------------------------------------------------------------
\* Number of grid points (30000 in the source; the model keeps the grid small).
imax == 10
\* The hard limit 1.0e100 on thetamax: a power of two one third of the way up
\* the exponent range, as 1e100 is in float64.
ThetaLimit == <<2 ^ (Prec - 1), (EMax + Prec) \div 3 - (Prec - 1)>>
Fifty == FromInt(50)

\* start + n * step of np.linspace, the last point being stop.
GridPoints(num, step) ==
    AsSeq([n \in 1..num |-> IF n = num /\ num > 1 THEN Fifty
                            ELSE FAdd(FNeg(Fifty), FMul(FromInt(n - 1), step))])

\* np.linspace(-50.0, 50.0, num)
linspace(num) == GridPoints(num, FDiv(FSub(Fifty, FNeg(Fifty)), FromInt(num - 1)))

\* thetamax of lines 342-345.
ThetaMax(sm) ==
    PyMin2(ThetaLimit,
           FSqrt(FDiv(FloatMax, PyMax2(PyMax2(One, sm[5]), FSub(sm[2], sm[5])))))

\* The starting grid of lines 347-348.
StartGrid(thetamax) == np_sort(linspace(imax - 2) \o <<thetamax, FNeg(thetamax)>>)

\* localmin (neg = FALSE) or localmax (neg = TRUE) of lines 381-390, as a
\* sequence of booleans: the end points are never optima.
LocalOpt(lambdavec, neg) ==
    [n \in 1..Len(lambdavec) |->
        IF n = 1 \/ n = Len(lambdavec) THEN FALSE
        ELSE IF neg THEN FGt(lambdavec[n], lambdavec[n - 1])
                         /\ FGt(lambdavec[n], lambdavec[n + 1])
             ELSE FLt(lambdavec[n], lambdavec[n - 1])
                  /\ FLt(lambdavec[n], lambdavec[n + 1])]

\* Lines 393-398: the two values bracketing theta_star are never optima.
\* i is np.sum(thetavec < theta_star) when theta_star is finite, else 0.
ClearAround(mask, i) ==
    AsSeq([n \in 1..Len(mask) |->
        IF i > 0 /\ i < imax /\ (n = i \/ n = i + 1) THEN FALSE ELSE mask[n]])

\* Lines 403-416 for one j, with the result r of brent.
Refined(acc, j, r) ==
    [thetavec |-> [acc.thetavec EXCEPT ![j] = r.solution],
     nbrent |-> acc.nbrent + 1,
     capped |-> acc.capped \/ r.capped,
     logged |-> IF r.capped THEN Append(acc.logged, BrentCapped) ELSE acc.logged]

\* The body of the loop of lines 402-416 for one j (j as in the source).
RefineStep(j, acc, localmin, localmax, sm) ==
    IF localmin[j] \/ localmax[j]
    THEN Refined(acc, j, brent(acc.thetavec[j - 1], acc.thetavec[j],
                               acc.thetavec[j + 1], ~localmin[j], Tol10, sm))
    ELSE acc

RECURSIVE RefineLoop(_, _, _, _, _)
\* The loop of lines 402-416 from j on: acc.thetavec is updated in place,
\* acc.nbrent counts the calls of brent, acc.logged holds what they wrote to
\* the log file, acc.capped whether one of them
\* reached its iteration cap.
RefineLoop(j, acc, localmin, localmax, sm) ==
    IF j >= Len(localmin) THEN acc
    ELSE RefineLoop(j + 1, RefineStep(j, acc, localmin, localmax, sm),
                    localmin, localmax, sm)

\* The position i of theta_star in thetavec (lines 351 and 394), 0 when
\* theta_star is not finite and i is not assigned.
Position(thetavec, theta_star) ==
    IF IsFinite(theta_star) THEN CountLess(thetavec, theta_star) ELSE 0

\* thetavec[i-1:i+1], a slice that is empty for i = 0 and is cut at the end.
Slice(thetavec, i) == IF i = 0 THEN <<>> ELSE SubSeq(thetavec, i, IMin(i + 1, Len(thetavec)))

\* A variant of SegmentsEnd in which i starts at 0 instead of being unassigned.
SegmentsEndFromZero(cx, lambdavec, localmin, localmax, i, ref) ==
    [exc |-> "none",
     theta_segments |->
        np_sort((Slice(ref.thetavec, i) \o SelectMask(ref.thetavec, localmin))
                \o SelectMask(ref.thetavec, localmax)
                \o (IF i > 0 /\ i < imax
                    THEN <<FNeg(cx.thetamax), cx.thetamax>> ELSE <<>>)),
     thetavec |-> ref.thetavec, lambdavec |-> lambdavec,
     warnings |-> cx.warnings, nbracket |-> cx.nbracket,
     nbrent |-> ref.nbrent, brent_capped |-> ref.capped]

\* Lines 418-433: cx holds theta_star, thetamax, the warnings and the number
\* of calls of bracket_theta_star so far; i is the position of theta_star in
\* the sorted thetavec.
SegmentsEnd(cx, lambdavec, localmin, localmax, i, ref) ==
    [exc |-> IF IsFinite(cx.theta_star) THEN "none" ELSE "UnboundLocalError",
     theta_segments |->
        IF ~IsFinite(cx.theta_star) THEN <<>>
        ELSE np_sort((Slice(ref.thetavec, i) \o SelectMask(ref.thetavec, localmin))
                     \o SelectMask(ref.thetavec, localmax)
                     \o (IF i > 0 /\ i < imax
                         THEN <<FNeg(cx.thetamax), cx.thetamax>> ELSE <<>>)),
     thetavec |-> ref.thetavec, lambdavec |-> lambdavec,
     warnings |-> cx.warnings, nbracket |-> cx.nbracket,
     nbrent |-> ref.nbrent, brent_capped |-> ref.capped]

\* Lines 381-398: the locals before the loop of line 402.
SegmentsOptima(cx, sm, thetavec, lambdavec, i) ==
    [exc |-> "none", cx |-> cx, thetavec |-> thetavec, lambdavec |-> lambdavec,
     localmin |-> ClearAround(LocalOpt(lambdavec, FALSE), i),
     localmax |-> ClearAround(LocalOpt(lambdavec, TRUE), i), i |-> i]

\* Lines 376-398, with thetavec as after line 376.
SegmentsSorted(cx, sm, thetavec) ==
    SegmentsOptima(cx, sm, thetavec, lambdafast(thetavec, sm),
                   Position(thetavec, cx.theta_star))

\* An assertion of lines 371-372 fails.
Failed(cx, e) ==
    [exc |-> e, cx |-> cx, thetavec |-> <<>>, lambdavec |-> <<>>,
     localmin |-> <<>>, localmax |-> <<>>, i |-> 0]

\* Lines 363-398, with thetavec as after line 363: i is the index of line 357.
SegmentsAsserted(cx, sm, thetavec, i) ==
    IF FLt(thetavec[i - 1], thetavec[i]) /\ FLt(thetavec[i + 1], thetavec[i + 2])
    THEN SegmentsSorted(cx, sm, np_sort(thetavec))
    ELSE Failed(cx, "AssertionError")

\* Lines 357-398, with the result br of bracket_theta_star.
SegmentsBracketed(cx, sm, thetavec, i, br) ==
    SegmentsAsserted([cx EXCEPT !.nbracket = 1,
                                !.warnings = IF br.warned
                                    THEN <<"Unable to find a good bracket for theta_star">>
                                    ELSE <<>>],
                     sm,
                     IF br.bracket # <<>>
                     THEN [thetavec EXCEPT ![i] = br.bracket[1], ![i + 1] = br.bracket[2]]
                     ELSE thetavec,
                     i)

\* Lines 349-398, with i the position of theta_star in the starting grid.
SegmentsPlaced(cx, sm, thetavec, i) ==
    IF ~IsFinite(cx.theta_star) THEN SegmentsSorted(cx, sm, np_sort(thetavec))
    ELSE IF i > 0 /\ i < imax
    THEN SegmentsBracketed(cx, sm, thetavec, IMin(IMax(i, 2), imax - 2),
                           BracketThetaStar(sm))
    ELSE SegmentsSorted([cx EXCEPT !.warnings = <<"theta_star > thetamax">>], sm,
                        np_sort(thetavec))

\* Lines 347-398.
SegmentsGrid(cx, sm, thetavec) ==
    SegmentsPlaced(cx, sm, thetavec, Position(thetavec, cx.theta_star))

\* Lines 338-398, given the simplified moments: the locals before the loop of
\* line 402, exc being the exception raised on the way ("none" if none).
Segments(sm, theta_star, thetamax) ==
    SegmentsGrid([theta_star |-> theta_star, thetamax |-> thetamax,
                  warnings |-> <<>>, nbracket |-> 0],
                 sm, StartGrid(thetamax))

\* estimate_theta_segments(moment_vector).  exc is the exception raised
\* ("none" when it returns); the calls made and the warnings issued are
\* recorded with the three values returned.
SegmentsLocals(sm) == Segments(sm, ThetaStar(sm), ThetaMax(sm))

\* What is left of the call when loc.exc was raised.
SegmentsRaised(loc) ==
    [exc |-> loc.exc, theta_segments |-> <<>>, thetavec |-> <<>>, lambdavec |-> <<>>,
     warnings |-> loc.cx.warnings, nbracket |-> loc.cx.nbracket, nbrent |-> 0,
     brent_capped |-> FALSE]

\* Lines 402-433 on the locals loc.
SegmentsRefine(loc, sm) ==
    IF loc.exc # "none" THEN SegmentsRaised(loc)
    ELSE SegmentsEnd(loc.cx, loc.lambdavec, loc.localmin, loc.localmax, loc.i,
                     RefineLoop(1, [thetavec |-> loc.thetavec, nbrent |-> 0,
                                    capped |-> FALSE, logged |-> <<>>],
                                loc.localmin, loc.localmax, sm))

EstimateThetaSegments(sm) == SegmentsRefine(SegmentsLocals(sm), sm)

estimate_theta_segments(mv) == EstimateThetaSegments(SM(mv))

\* lambda_star strictly inside lambda_range.
LambdaStarInsideRange(lambda_star, lambda_range) ==
    FLt(lambda_range[1], lambda_star) /\ FLt(lambda_star, lambda_range[2])

\* ------------------------------------------------------------------------
\* estimate_theta (lines 490-722): the search for the important thetas
\* ------------------------------------------------------------------------
\* The early return of lines 513-517.
LambdaStarInRange(lambda_star, lambda_range) ==
    FLe(lambda_range[1], lambda_star) /\ FLe(lambda_star, lambda_range[2])

\* theta_estimate of lines 514-516 for a moment vector of length m.
UnidentifiedEstimate(m) ==
    << <<NInf>> \o [n \in 1..m |-> Zero], <<PInf>> \o [n \in 1..m |-> Zero] >>

\* Every segment is examined.
SegmentAlwaysExamined(ctr, theta_star) == TRUE

\* Lines 533-535: the segment is examined unless theta_star lies inside it.
SegmentExamined(ctr, theta_star) ==
    \/ ~IsFinite(theta_star)
    \/ FGe(ctr[1], theta_star)
    \/ FLe(ctr[2], theta_star)

\* A test that leaves out the comparison with the smaller end.
RootBelowMax(lam, clr) == FLt(lam, PyMax2(clr[1], clr[2]))

\* Lines 544-545: lambda lies strictly between the values of lambda(theta) at
\* the two ends of the segment (min and max are Python's).
RootInSegment(lam, clr) ==
    FGt(lam, PyMin2(clr[1], clr[2])) /\ FLt(lam, PyMax2(clr[1], clr[2]))

\* The results of the two turns of the loop of line 541, in order.
Both(found) == found[1] \o found[2]

\* The body of the loop of lines 528-557 for one i: the zbrent results that
\* are appended to important_thetas, in order, given current_theta_range and
\* current_lambda_range.
SegmentRootsIn(ctr, clr, lambda_range, sm) ==
    Both([j \in 1..2 |->
            IF RootInSegment(lambda_range[j], clr)
            THEN <<zbrent(ctr[1], ctr[2], Tol200, lambda_range[j], sm)>>
            ELSE <<>>])

\* The same, given current_theta_range.
SegmentRootsOf(ctr, theta_star, lambda_range, sm) ==
    IF SegmentExamined(ctr, theta_star)
    THEN SegmentRootsIn(ctr, lambdafast(ctr, sm), lambda_range, sm)
    ELSE <<>>

SegmentRoots(i, theta_star, lambda_range, theta_segments, sm) ==
    SegmentRootsOf(SubSeq(theta_segments, i, i + 1), theta_star, lambda_range, sm)

Thousandth == FromRat(1, 1000)

\* inrange of lines 569-572: k - 1 is the number of roots, which come first.
InRangeOf(lambda_segments, k, lambda_range) ==
    AsSeq([n \in 1..Len(lambda_segments) |->
            \/ n <= k - 1
            \/ /\ FGe(lambda_segments[n], FSub(lambda_range[1], Thousandth))
               /\ FLe(lambda_segments[n], FAdd(lambda_range[2], Thousandth))])

\* inrange with the first k entries forced instead of the first k - 1.
InRangeFirstK(important_thetas, k, lambda_range, sm) ==
    InRangeOf(lambdafast(important_thetas, sm), k + 1, lambda_range)

InRange(important_thetas, k, lambda_range, sm) ==
    InRangeOf(lambdafast(important_thetas, sm), k, lambda_range)

RECURSIVE ArgBest(_, _, _, _)
\* np.argmin (neg = FALSE) or np.argmax (neg = TRUE) of a non-empty array,
\* scanning from position n with best the position kept so far: the first
\* NaN if there is one, else the first extreme value.
ArgBest(vec, n, best, neg) ==
    IF n > Len(vec) \/ IsNaN(vec[best]) THEN best
    ELSE IF IsNaN(vec[n]) \/ (IF neg THEN FGt(vec[n], vec[best]) ELSE FLt(vec[n], vec[best]))
         THEN ArgBest(vec, n + 1, n, neg)
         ELSE ArgBest(vec, n + 1, best, neg)

argmin(vec) == ArgBest(vec, 2, 1, FALSE)
argmax(vec) == ArgBest(vec, 2, 1, TRUE)

RECURSIVE PyFold(_, _, _)
\* Python's min(vec) (neg = FALSE) or max(vec) (neg = TRUE) of a non-empty
\* sequence, with acc the value kept so far.
PyFold(vec, acc, neg) ==
    IF vec = <<>> THEN acc
    ELSE PyFold(Tail(vec), IF neg THEN PyMax2(acc, vec[1]) ELSE PyMin2(acc, vec[1]), neg)

PyMin(vec) == PyFold(Tail(vec), vec[1], FALSE)
PyMax(vec) == PyFold(Tail(vec), vec[1], TRUE)

AnyTrue(mask) == \E n \in 1..Len(mask) : mask[n]

\* The smallest in-range value whether or not a smaller one is out of range.
LowerBoundInRange(important_thetas, inrange) ==
    IF ~AnyTrue(inrange) THEN NaN
    ELSE PyMin(SelectMask(important_thetas, inrange))

\* A lower bound that is -inf when no important theta is in range.
LowerBoundUnbounded(important_thetas, inrange) ==
    IF ~AnyTrue(inrange) THEN NInf
    ELSE IF inrange[argmin(important_thetas)] THEN NInf
    ELSE PyMin(SelectMask(important_thetas, inrange))

\* theta_estimate[0, 0] of lines 574-583.
LowerBound(important_thetas, inrange) ==
    IF ~AnyTrue(inrange) THEN NaN
    ELSE IF inrange[argmin(important_thetas)] THEN NInf
    ELSE PyMin(SelectMask(important_thetas, inrange))

\* The largest important theta, in range or not.
UpperBoundUnmasked(important_thetas, inrange) ==
    IF ~AnyTrue(inrange) THEN NaN
    ELSE IF inrange[argmax(important_thetas)] THEN PInf
    ELSE PyMax(important_thetas)

\* theta_estimate[1, 0] of lines 585-594.
UpperBound(important_thetas, inrange) ==
    IF ~AnyTrue(inrange) THEN NaN
    ELSE IF inrange[argmax(important_thetas)] THEN PInf
    ELSE PyMax(SelectMask(important_thetas, inrange))

\* ------------------------------------------------------------------------
\* estimate_theta (lines 595-722): the gradient by Ridders' extrapolation
\* ------------------------------------------------------------------------
ntab == 10
nmax == 10
con == FromRat(14, 10)
con2 == FMul(con, con)
safe == Two
Hundredth == FromRat(1, 100)

RECURSIVE geop(_, _, _)
\* geop(first, factor, n): the geometric series of n terms.
geop(first, factor, n) ==
    IF n <= 0 THEN <<>>
    ELSE IF n = 1 THEN <<first>>
    ELSE LET g == geop(first, factor, n - 1) IN Append(g, FMul(g[n - 1], factor))

fac == geop(con2, con2, ntab - 1)

RECURSIVE StepSizes(_, _)
\* The step sizes hh of one tableau: h, h / con, ... (n of them).
StepSizes(h, n) ==
    IF n = 1 THEN <<h>>
    ELSE LET hs == StepSizes(h, n - 1) IN Append(hs, FDiv(hs[n - 1], con))

RECURSIVE NevilleColumn(_, _, _)
\* Column k of the tableau a (lines 644-648): col holds its entries so far,
\* the first being a[0, k-1], and prevcol is column k - 1.
NevilleColumn(col, prevcol, k) ==
    IF Len(col) >= k THEN col
    ELSE NevilleColumn(Append(col, FDiv(FSub(FMul(col[Len(col)], fac[Len(col)]),
                                             prevcol[Len(col)]),
                                        FSub(fac[Len(col)], One))),
                       prevcol, k)

\* errt[0:k-1] of lines 649-652.
ErrT(col, prevcol) ==
    AsSeq([q \in 1..Len(prevcol) |->
        np_maximum(FAbs(FSub(col[q + 1], col[q])), FAbs(FSub(col[q + 1], prevcol[q])))])

RECURSIVE NanArgMin(_, _, _)
\* np.nanargmin of an array with a finite entry, scanning from n.
NanArgMin(errt, n, best) ==
    IF n > Len(errt) THEN best
    ELSE IF ~IsNaN(errt[n]) /\ (IsNaN(errt[best]) \/ FLt(errt[n], errt[best]))
         THEN NanArgMin(errt, n + 1, n)
         ELSE NanArgMin(errt, n + 1, best)

\* ierrmin of lines 653-654, as a position of errt.
IErrMin(errt) ==
    IF \E q \in 1..Len(errt) : IsFinite(errt[q]) THEN NanArgMin(errt, 2, 1) ELSE 1

\* Lines 657-659 (692-694): the locals st after the column col, e being
\* errt[ierrmin] and v being a[1 + ierrmin, k - 1].  st.a is the last column
\* of the tableau, and st.dfridr the local dfridr (set tells whether it has
\* been assigned).
RiddersKept(st, col, e, v) ==
    IF FLe(e, st.err)
    THEN [st EXCEPT !.err = e, !.dfridr = [set |-> TRUE, v |-> v], !.a = col]
    ELSE [st EXCEPT !.a = col]

\* Lines 653-659, given errt.
RiddersLeast(st, col, errt, ierrmin) ==
    RiddersKept(st, col, errt[ierrmin], col[ierrmin + 1])

RiddersErrors(st, col, errt) == RiddersLeast(st, col, errt, IErrMin(errt))

\* Lines 649-659, given column k of the tableau.
RiddersColumn(st, col) == RiddersErrors(st, col, ErrT(col, st.a))

\* Lines 660-661 after column k: the loop of line 635 is left, by the break
\* or at its end.  prev is a[k-2, k-2] and st2 the locals after column k.
LoopLeft(k, prev, st2) ==
    k >= ntab \/ FGe(FAbs(FSub(st2.a[k], prev)), FMul(safe, st2.err))

\* (f(x + hh) - f(x - hh)) / (2.0 * hh)
Quotient(fplus, fminus, hh) == FDiv(FSub(fplus, fminus), FMul(Two, hh))

\* The quotient of lines 629-631 and 640-642 for dlambda / dtheta.
ThetaQuotient(theta, hh, sm) ==
    Quotient(Lambda1(FAdd(theta, hh), sm), Lambda1(FSub(theta, hh), sm), hh)

\* moment_vector + deps and moment_vector - deps with deps[i-1] = hh.
Shifted(mv, i, hh) ==
    AsSeq([n \in 1..Len(mv) |-> IF n = i THEN FAdd(mv[n], hh) ELSE mv[n]])

\* The quotient of lines 671-673 and 678-681 for dlambda / dmoment_vector[i-1].
MomentQuotient(mv, i, theta, hh) ==
    Quotient(lambdafun(Shifted(mv, i, hh), theta),
             lambdafun(Shifted(mv, i, FNeg(hh)), theta), hh)

\* The quotient of the tableau i of estimate_theta: 0 is the one for theta.
GradientQuotient(i, theta, mv, sm, hh) ==
    IF i = 0 THEN ThetaQuotient(theta, hh, sm) ELSE MomentQuotient(mv, i, theta, hh)

Unassigned == [set |-> FALSE, v |-> NaN]

\* The step sizes hh of the tableaus for h = 0.1 ** n, n = 1..nmax.
StepTable == AsSeq([n \in 1..nmax |-> StepSizes(TenthPowers[n], ntab)])

\* Line 718: theta_estimate[j-1, 1:] = -dmoments / dtheta
GradientRow(dmoments, dtheta) ==
    AsSeq([n \in 1..Len(dmoments) |-> FDiv(FNeg(dmoments[n]), dtheta)])

\* ------------------------------------------------------------------------
\* estimate_parameter (lines 936-1016)
\* ------------------------------------------------------------------------
\* big of estimate_parameter: 1.0e300, which is as far below the largest
\* float here as it is in float64.
Big300 == <<2 ^ (Prec - 1), EMax - 1>>

\* func(moment_vector) for the three functions estimate_model passes.
ParamFunc(f, mv) ==
    IF f = "lambdastar" THEN lambdastar(mv)
    ELSE IF f = "thetastar" THEN thetastar(mv)
    ELSE lambda0_fun(mv)

\* The quotient of lines 968-969 and 980-981 for the derivative in
\* moment_vector[i-1].
ParamQuotient(f, mv, i, hh) ==
    Quotient(ParamFunc(f, Shifted(mv, i, hh)), ParamFunc(f, Shifted(mv, i, FNeg(hh))),
             hh)

\* A loop that goes through all the step sizes.
ParamDoneAtEnd(n, p) == n = nmax

\* Lines 1008-1013 after the pass p for h = 0.1 ** n: the loop is left.
ParamDone(n, p) == FLt(p.errmax, Hundredth) \/ n = nmax

\* The warning of line 1013 for the function f.
ParamWarning(f) == "Inaccurate SE for " \o f \o ". Try normalizing variables."

Zeros(n) == AsSeq([q \in 1..n |-> Zero])

\* ========================================================================
\* The state machine
\* ========================================================================
\* op is the function called from outside, pc the position reached in it, and
\* frame the locals of the function that is running; caller holds the locals
\* of estimate_model while estimate_theta runs for it.  result is the value
\* returned, exc the exception that ended the call ("none" otherwise),
\* warnings the messages passed to warn() and calls the number of calls made
\* of each routine (quotients counts the difference quotients evaluated);
\* steps counts the steps taken, and returned holds how the earlier calls of
\* estimate_model ended.
VARIABLES op, pc, moment_vector, lambda_range, theta_segments, theta,
          simplified_moments, frame, caller, result, exc, warnings, calls,
          logfile, files, pywarnings, steps, returned

vars == <<op, pc, moment_vector, lambda_range, theta_segments, theta,
          simplified_moments, frame, caller, result, exc, warnings, calls,
          logfile, files, pywarnings, steps, returned>>

\* ------------------------------------------------------------------------
\* The log file (lines 68-106) and warn (lines 232-235)
\* ------------------------------------------------------------------------
\* logfile is the global of that name, None while it is not defined
\* (get_logfile, lines 79-82); files maps the name of each file that exists
\* to the strings written to it; pywarnings holds the messages given to
\* warnings.warn.
\* A Python value: its type, the shape it has as an array and its elements
\* in row-major order (the characters, for a string).
PyObject(type, shape, data) == [type |-> type, shape |-> shape, data |-> data]

PyNone == PyObject("NoneType", <<>>, <<>>)

PyStr(s) == PyObject("str", <<>>, s)

\* "{0}".format(o) for the values passed as a log file name.
Format(o) ==
    CASE o.type = "str" -> o.data
      [] o.type = "NoneType" -> "None"
      [] o.type = "bool" -> IF o.data[1] THEN "True" ELSE "False"
      [] OTHER -> "1.0"

\* A file that exists and cannot be written, a folder that does not exist,
\* and a name with a NUL character in it.
ReadOnlyFile == "testing/read-only-file.txt"
BadFolder == "nonexistent-folder/log.txt"
NulName == "log\\0.txt"

\* open(name, mode) of line 91 for mode "w" or "a": the exception it raises,
\* "none" when the file is opened.  PermissionError and FileNotFoundError
\* are OSErrors; a name with a NUL character raises ValueError.
Open(name) ==
    IF name \in {ReadOnlyFile, BadFolder, ""} THEN "OSError"
    ELSE IF name = NulName THEN "ValueError"
    ELSE "none"

\* The files after text is written to the file name opened in mode.
FileWritten(fs, name, text, mode) ==
    [n \in DOMAIN fs \cup {name} |->
        IF n # name THEN fs[n]
        ELSE IF mode = "w" \/ name \notin DOMAIN fs THEN <<text>>
        ELSE Append(fs[name], text)]

\* The handler of line 93 for the exception e of open: OSError is caught
\* and warned of, any other exception leaves write_to_logfile.
WriteFailed(io, e) ==
    IF e = "OSError"
    THEN [io EXCEPT !.pywarnings =
             Append(@, "Cannot write to logfile " \o io.logfile.data \o ".")]
    ELSE [io EXCEPT !.exc = e]

\* write_to_logfile(str, mode) on io, the record of logfile, files and
\* pywarnings and of the exception raised so far.
write_to_logfile(io, text, mode) ==
    IF io.exc # "none" \/ io.logfile = PyNone THEN io
    ELSE IF Open(io.logfile.data) = "none"
    THEN [io EXCEPT !.files = FileWritten(@, io.logfile.data, text, mode)]
    ELSE WriteFailed(io, Open(io.logfile.data))

\* set_logfile(fname)
set_logfile(io, fname) ==
    IF fname.type = "str" \/ fname = PyNone THEN [io EXCEPT !.logfile = fname]
    ELSE io

\* start_logfile(logfile); the time of line 105 is not kept.
start_logfile(io, fname) ==
    write_to_logfile(
        write_to_logfile(set_logfile(io, fname),
                         "Log file " \o Format(fname) \o " for RCR version 1.0\n", "w"),
        "Run at a time.\n", "a")

\* warnings.warn(msg), unless an exception was raised before.
warnings_warn(io, msg) ==
    IF io.exc # "none" THEN io ELSE [io EXCEPT !.pywarnings = Append(@, msg)]

\* warn(msg)
warn(io, msg) == warnings_warn(write_to_logfile(io, "WARNING: " \o msg \o "\n", "a"), msg)

RECURSIVE WarnAll(_, _)
\* warn(msg) for each of msgs in turn.
WarnAll(io, msgs) ==
    IF msgs = <<>> THEN io ELSE WarnAll(warn(io, Head(msgs)), Tail(msgs))

RECURSIVE WriteAll(_, _)
\* write_to_logfile(text) for each of texts in turn.
WriteAll(io, texts) ==
    IF texts = <<>> THEN io
    ELSE WriteAll(write_to_logfile(io, Head(texts), "a"), Tail(texts))

\* The log as the step finds it.
Log == [logfile |-> logfile, files |-> files, pywarnings |-> pywarnings,
        exc |-> "none"]

\* The step leaves the log as io.
LogLeft(io) ==
    /\ logfile' = io.logfile
    /\ files' = io.files
    /\ pywarnings' = io.pywarnings

\* The step writes texts to the log file and then passes to warn the
\* messages it adds to warnings.
Logged(texts) ==
    LogLeft(WarnAll(WriteAll(Log, texts),
                    SubSeq(warnings', Len(warnings) + 1, Len(warnings'))))

\* No log file is set and no warning was given.
NoLog ==
    /\ logfile = PyNone
    /\ files = [n \in {ReadOnlyFile} |-> <<>>]
    /\ pywarnings = <<>>

NoCalls == [check_moments |-> 0, estimate_parameter |-> 0,
            estimate_theta_segments |-> 0, bracket_theta_star |-> 0,
            brent |-> 0, estimate_theta |-> 0, zbrent |-> 0, quotients |-> 0]

\* Nothing has been computed yet.
Fresh ==
    /\ pc = "call"
    /\ simplified_moments = <<>>
    /\ frame = <<>>
    /\ caller = <<>>
    /\ result = <<>>
    /\ exc = "none"
    /\ warnings = <<>>
    /\ calls = NoCalls
    /\ steps = 0
    /\ returned = <<>>
    /\ NoLog

\* Moments are written in quarters.
Q(n) == FromRat(n, 4)

\* The longest moment vector tried for the length check.
MaxLen == 16

\* Vectors of every length up to MaxLen.
AnyLength == {[n \in 1..len |-> Q(n % 3)] : len \in 0..MaxLen}

\* Moment vectors of one control variable and an intercept (k = 4):
\* E[X], E[Y], E[Z], E[XX], E[XY], E[XZ], E[YY], E[YZ], E[ZZ].
Moments9 ==
    {<<Q(ex), Zero, Zero, Q(exx), Q(exy), Q(exz), Q(4), Q(eyz), Q(ezz)>> :
        ex \in {0, 4}, exx \in {4, 8}, exy \in {-2, 0, 2}, exz \in {0, 2, 3},
        eyz \in {2, 5}, ezz \in {4, 1}}

\* Moment vectors of two control variables and an intercept (k = 5).
Moments14 ==
    {<<Zero, Zero, Zero, Zero, Q(4), Q(x12), Q(2), Q(2), Q(4), Q(x2y), Q(2),
       Q(4), Q(2), Q(4)>> : x12 \in {0, 4}, x2y \in {1, 0, 2}}

\* The moment vector of the test of a randomised treatment: E[XZ] = E[Z] = 0.
RctMoments == <<Zero, Zero, Zero, One, Half, Zero, One, Half, One>>

\* A valid and identified moment vector: theta_star = 1, lambda_star = sqrt(3).
PlainMoments == <<Zero, Zero, Zero, One, Half, Half, One, Half, One>>

\* ------------------------------------------------------------------------
\* simplify_moments followed by check_moments
\* ------------------------------------------------------------------------
InitSM ==
    /\ op = "simplify_moments"
    /\ moment_vector \in AnyLength \cup Moments9 \cup Moments14
    /\ lambda_range = <<>>
    /\ theta_segments = <<>>
    /\ theta = <<>>
    /\ Fresh

\* simplify_moments(moment_vector): frame keeps what it computed.
SimplifyMoments ==
    /\ op = "simplify_moments"
    /\ pc = "call"
    /\ frame' = simplify_moments(moment_vector)
    /\ exc' = frame'.exc
    /\ simplified_moments' = frame'.sm
    /\ pc' = IF frame'.exc = "none" THEN "simplified" ELSE "raised"
    /\ UNCHANGED <<op, moment_vector, lambda_range, theta_segments, theta, caller,
                   result, warnings, calls>>
    /\ steps' = steps + 1
    /\ UNCHANGED returned
    /\ Logged(<<>>)

\* What the caller keeps of the record r of check_moments.
CheckedAs(r) ==
    /\ result' = <<r.valid, r.identified>>
    /\ warnings' = warnings \o r.warnings

\* check_moments(moment_vector) on the same vector.
CheckMoments ==
    /\ op = "simplify_moments"
    /\ pc = "simplified"
    /\ CheckedAs(check_moments(moment_vector))
    /\ calls' = [calls EXCEPT !.check_moments = @ + 1]
    /\ pc' = "checked"
    /\ UNCHANGED <<op, moment_vector, lambda_range, theta_segments, theta,
                   simplified_moments, frame, caller, exc>>
    /\ steps' = steps + 1
    /\ UNCHANGED returned
    /\ Logged(<<>>)

NextSM == SimplifyMoments \/ CheckMoments

SpecSM == InitSM /\ [][NextSM]_vars

\* ------------------------------------------------------------------------
\* lambdafast
\* ------------------------------------------------------------------------
\* The longest array of thetas passed to lambdafast.
MaxThetas == 3

\* The thetas tried: finite ones, among them the poles theta_star of the
\* moments below, NaN and infinity.
ThetaValues == {FromInt(-1), Zero, One, NaN, PInf}

ThetaArrays ==
    UNION {[1..len -> ThetaValues] : len \in 0..MaxThetas}

\* Simplified moments var(y), var(z), cov(y,z), var(yhat), var(zhat),
\* cov(yhat,zhat): valid ones, ones with var(yhat) > var(y), and ones with
\* var(zhat) = 0.
SimplifiedInputs ==
    {<<Q(4), Q(4), Q(2), Q(yhat), Q(zhat), Q(yzhat)>> :
        yhat \in {1, 2, 8}, zhat \in {0, 1}, yzhat \in {-1, 0, 1}}

InitLF ==
    /\ op = "lambdafast"
    /\ theta \in ThetaArrays
    /\ moment_vector = <<>>
    /\ lambda_range = <<>>
    /\ theta_segments = <<>>
    /\ pc = "call"
    /\ simplified_moments \in SimplifiedInputs
    /\ frame = <<>>
    /\ caller = <<>>
    /\ result = <<>>
    /\ exc = "none"
    /\ warnings = <<>>
    /\ calls = NoCalls
    /\ steps = 0
    /\ returned = <<>>
    /\ NoLog

\* lambdafast(theta, simplified_moments)
LambdaFast ==
    /\ op = "lambdafast"
    /\ pc = "call"
    /\ result' = lambdafast(theta, simplified_moments)
    /\ pc' = "done"
    /\ UNCHANGED <<op, moment_vector, lambda_range, theta_segments, theta,
                   simplified_moments, frame, caller, exc, warnings, calls>>
    /\ steps' = steps + 1
    /\ UNCHANGED returned
    /\ Logged(<<>>)

NextLF == LambdaFast

SpecLF == InitLF /\ [][NextLF]_vars

\* ------------------------------------------------------------------------
\* bracket_theta_star, one trial of its loop at a time
\* ------------------------------------------------------------------------
\* Moment vectors for bracket_theta_star: the ones of one control whose
\* E[X] is zero, the one of the randomised treatment, and one for which
\* lambda has no pole at theta_star.
BracketInputs ==
    {mv \in Moments9 : mv[1] = Zero}
    \cup {PlainMoments, RctMoments, [PlainMoments EXCEPT ![8] = One]}

InitBT ==
    /\ op = "bracket_theta_star"
    /\ moment_vector \in BracketInputs
    /\ lambda_range = <<>>
    /\ theta_segments = <<>>
    /\ theta = <<>>
    /\ Fresh

\* Lines 440-455, given sm and lim = sm[5] * sm[1] / sm[4].
BTStart(sm, lim) ==
    /\ simplified_moments' = sm
    /\ IF FEq(sm[3], lim)
       THEN /\ result' = <<>>
            /\ pc' = "done"
            /\ UNCHANGED frame
       ELSE /\ frame' = [theta_star |-> ThetaStar(sm),
                         true_limit |-> TrueLimit(FSign(FSub(sm[3], lim))),
                         i |-> 1, j |-> 0, bracket |-> <<>>]
            /\ pc' = "trials"
            /\ UNCHANGED result

\* bracket_theta_star(moment_vector) is called.
BT_Call ==
    /\ op = "bracket_theta_star"
    /\ pc = "call"
    /\ BTStart(SM(moment_vector),
               FDiv(FMul(SM(moment_vector)[6], SM(moment_vector)[2]),
                    SM(moment_vector)[5]))
    /\ calls' = [calls EXCEPT !.bracket_theta_star = @ + 1]
    /\ UNCHANGED <<op, moment_vector, lambda_range, theta_segments, theta, caller,
                   exc, warnings>>
    /\ steps' = steps + 1
    /\ UNCHANGED returned
    /\ Logged(<<>>)

\* Lines 475-484 for the candidate of the trial fr.i.
BTTried(fr, candidate) ==
    IF GoodBracket(candidate, fr.theta_star, fr.true_limit, simplified_moments)
    THEN [fr EXCEPT !.j = fr.i, !.bracket = candidate, !.i = @ + 1]
    ELSE [fr EXCEPT !.i = @ + 1]

\* One turn of the loop of line 456.
BT_Trial ==
    /\ op = "bracket_theta_star"
    /\ pc = "trials"
    /\ frame.i <= ntrials
    /\ frame' = BTTried(frame, Candidate(frame.theta_star, TenthPowers[frame.i]))
    /\ UNCHANGED <<op, pc, moment_vector, lambda_range, theta_segments, theta,
                   simplified_moments, caller, result, exc, warnings, calls>>
    /\ steps' = steps + 1
    /\ UNCHANGED returned
    /\ Logged(<<>>)

\* The loop is over: lines 485-487.
BT_Return ==
    /\ op = "bracket_theta_star"
    /\ pc = "trials"
    /\ frame.i > ntrials
    /\ warnings' = IF frame.j = 0
                   THEN Append(warnings, "Unable to find a good bracket for theta_star")
                   ELSE warnings
    /\ result' = frame.bracket
    /\ pc' = "done"
    /\ UNCHANGED <<op, moment_vector, lambda_range, theta_segments, theta,
                   simplified_moments, frame, caller, exc, calls>>
    /\ steps' = steps + 1
    /\ UNCHANGED returned
    /\ Logged(<<>>)

NextBT == BT_Call \/ BT_Trial \/ BT_Return

SpecBT == InitBT /\ [][NextBT]_vars

\* ------------------------------------------------------------------------
\* check_lambda and the lambda_range of RCR.fit
\* ------------------------------------------------------------------------
\* np.asarray(o) for a list, a tuple or a float o; an ndarray is returned
\* as it is.
np_asarray(o) == PyObject("ndarray", o.shape, o.data)

\* A variant of check_lambda without the test of the order.
CheckLambdaUnordered(o) ==
    IF o.type # "ndarray" THEN "TypeError"
    ELSE IF Len(o.shape) # 1 THEN "TypeError"
    ELSE IF o.shape[1] # 2 THEN "TypeError"
    ELSE IF \E n \in 1..Len(o.data) : IsNaN(o.data[n]) THEN "ValueError"
    ELSE "none"

\* check_lambda(lambda_range): the exception it raises, "none" when it
\* returns.
check_lambda(o) ==
    IF o.type # "ndarray" THEN "TypeError"
    ELSE IF Len(o.shape) # 1 THEN "TypeError"
    ELSE IF o.shape[1] # 2 THEN "TypeError"
    ELSE IF \E n \in 1..Len(o.data) : IsNaN(o.data[n]) THEN "ValueError"
    ELSE IF FGt(o.data[1], o.data[2]) THEN "ValueError"
    ELSE "none"

\* The elements tried in a lambda_range.
LambdaElements == {NInf, FromInt(-1), Zero, One, PInf, NaN}

\* The largest length of a 1-d lambda_range tried.
MaxLambdas == 3

\* Arrays of one dimension, of every length up to MaxLambdas; the longer
\* ones begin with 0, 1.
Arrays1d ==
    {PyObject("ndarray", <<0>>, <<>>)}
    \cup {PyObject("ndarray", <<1>>, <<x>>) : x \in LambdaElements}
    \cup {PyObject("ndarray", <<2>>, <<x, y>>) : x, y \in LambdaElements}
    \cup {PyObject("ndarray", <<n>>, <<Zero, One>> \o [q \in 1..(n - 2) |-> x]) :
             n \in 3..MaxLambdas, x \in LambdaElements}

\* Arrays of no dimension and of two dimensions.
ArraysNot1d ==
    {PyObject("ndarray", <<>>, <<x>>) : x \in {Zero, NaN}}
    \cup {PyObject("ndarray", sh, <<Zero, One>>) : sh \in {<<1, 2>>, <<2, 1>>}}
    \cup {PyObject("ndarray", <<2, 2>>, <<Zero, One, Zero, One>>)}

\* Values that are no ndarray: lists, tuples and floats.
NotArrays ==
    {PyObject(t, <<2>>, <<x, y>>) : t \in {"list", "tuple"},
                                     x \in {Zero, One}, y \in {Zero, One, NaN}}
    \cup {PyObject("list", <<1, 2>>, <<Zero, One>>), PyObject("list", <<0>>, <<>>),
          PyObject("float", <<>>, <<One>>)}

\* The lambda_range an RCR object was constructed with: check_lambda has
\* accepted it (line 1405).
Constructed == {o \in Arrays1d : check_lambda(o) = "none"}

InitCL ==
    /\ \/ /\ op = "check_lambda"
          /\ lambda_range \in Arrays1d \cup ArraysNot1d \cup NotArrays \cup {PyNone}
          /\ frame = <<>>
          /\ moment_vector = <<>>
       \/ /\ op = "fit"
          /\ lambda_range \in Arrays1d \cup ArraysNot1d \cup NotArrays \cup {PyNone}
          /\ frame \in {[self_lambda_range |-> o] : o \in Constructed}
          /\ moment_vector = PlainMoments
    /\ theta_segments = <<>>
    /\ theta = <<>>
    /\ pc = "call"
    /\ simplified_moments = <<>>
    /\ caller = <<>>
    /\ result = <<>>
    /\ exc = "none"
    /\ warnings = <<>>
    /\ calls = NoCalls
    /\ steps = 0
    /\ returned = <<>>
    /\ NoLog

\* check_lambda(lambda_range)
CheckLambda ==
    /\ op = "check_lambda"
    /\ pc = "call"
    /\ exc' = check_lambda(lambda_range)
    /\ pc' = IF exc' = "none" THEN "done" ELSE "raised"
    /\ UNCHANGED <<op, moment_vector, lambda_range, theta_segments, theta,
                   simplified_moments, frame, caller, result, warnings, calls>>
    /\ steps' = steps + 1
    /\ UNCHANGED returned
    /\ Logged(<<>>)

\* Lines 1456-1460 of RCR.fit: the lambda_range of the object, or the
\* argument made an array and checked.  The other arguments are left at
\* None, so that the checks of lines 1461-1470 are those of the constructor.
Fit_Call ==
    /\ op = "fit"
    /\ pc = "call"
    /\ IF lambda_range = PyNone
       THEN /\ lambda_range' = frame.self_lambda_range
            /\ pc' = "checked"
            /\ UNCHANGED exc
       ELSE /\ lambda_range' = np_asarray(lambda_range)
            /\ exc' = check_lambda(lambda_range')
            /\ pc' = IF exc' = "none" THEN "checked" ELSE "raised"
    /\ UNCHANGED <<op, moment_vector, theta_segments, theta, simplified_moments,
                   frame, caller, result, warnings, calls>>
    /\ steps' = steps + 1
    /\ UNCHANGED returned
    /\ Logged(<<>>)

\* Line 1475 of RCR.fit: estimate_model is called with the moment vector of
\* the data and lambda_range.
Fit_Model ==
    /\ op = "fit"
    /\ pc = "checked"
    /\ op' = "estimate_model"
    /\ pc' = "call"
    /\ lambda_range' = lambda_range.data
    /\ frame' = <<>>
    /\ UNCHANGED <<moment_vector, theta_segments, theta, simplified_moments,
                   caller, result, exc, warnings, calls>>
    /\ steps' = steps + 1
    /\ UNCHANGED returned
    /\ Logged(<<>>)

NextCL == CheckLambda \/ Fit_Call \/ Fit_Model

SpecCL == InitCL /\ [][NextCL]_vars

\* ------------------------------------------------------------------------
\* lambda0_fun next to lambdafast at theta = 0
\* ------------------------------------------------------------------------
\* 1.0e200: a power of two two thirds of the way up the exponent range, as
\* 1e200 is in float64; its square overflows.
Big200 == <<2 ^ (Prec - 1), (2 * (EMax + Prec)) \div 3 - (Prec - 1)>>

\* Moment vectors for lambda0_fun: the ones of one and two controls, ones
\* with an infinite E[ZZ], and ones of two controls with E[Z] = 1e200.
LambdaZeroInputs ==
    Moments9 \cup Moments14
    \cup {[mv EXCEPT ![9] = PInf] : mv \in {PlainMoments, RctMoments}}
    \cup {[mv EXCEPT ![4] = Big200] : mv \in Moments14}

InitL0 ==
    /\ op = "lambda0_fun"
    /\ moment_vector \in LambdaZeroInputs
    /\ lambda_range = <<>>
    /\ theta_segments = <<>>
    /\ theta = <<Zero>>
    /\ Fresh

\* lambda0_fun(moment_vector)
LambdaZero ==
    /\ op = "lambda0_fun"
    /\ pc = "call"
    /\ result' = <<lambda0_fun(moment_vector)>>
    /\ pc' = "closed"
    /\ UNCHANGED <<op, moment_vector, lambda_range, theta_segments, theta,
                   simplified_moments, frame, caller, exc, warnings, calls>>
    /\ steps' = steps + 1
    /\ UNCHANGED returned
    /\ Logged(<<>>)

\* lambdafast(0.0, simplify_moments(moment_vector)) on the same vector.
LambdaFastAtZero ==
    /\ op = "lambda0_fun"
    /\ pc = "closed"
    /\ simplified_moments' = SM(moment_vector)
    /\ result' = result \o lambdafast(theta, simplified_moments')
    /\ pc' = "done"
    /\ UNCHANGED <<op, moment_vector, lambda_range, theta_segments, theta,
                   frame, caller, exc, warnings, calls>>
    /\ steps' = steps + 1
    /\ UNCHANGED returned
    /\ Logged(<<>>)

NextL0 == LambdaZero \/ LambdaFastAtZero

SpecL0 == InitL0 /\ [][NextL0]_vars

\* ------------------------------------------------------------------------
\* The logging functions, called from the outside
\* ------------------------------------------------------------------------
\* The largest number of calls made in one run.
MaxLogCalls == 3

\* The values passed as the name of the log file: None, the names of a file
\* that can be written and of ones that cannot be opened, a float and a bool.
LogArguments ==
    {PyNone, PyStr("log.txt"), PyStr(ReadOnlyFile), PyStr(BadFolder),
     PyStr(NulName), PyObject("float", <<>>, <<One>>),
     PyObject("bool", <<>>, <<TRUE>>)}

\* The text passed to write_to_logfile and the message passed to warn.
LogText == "Reading data from input file in.txt.\n"
LogMessage == "Invalid data in moment vector."

InitLog ==
    /\ op = "logging"
    /\ moment_vector = <<>>
    /\ lambda_range = <<>>
    /\ theta_segments = <<>>
    /\ theta = <<>>
    /\ pc = "call"
    /\ simplified_moments = <<>>
    /\ frame = [fn |-> "none", arg |-> PyNone, n |-> 0]
    /\ caller = <<>>
    /\ result = <<>>
    /\ exc = "none"
    /\ warnings = <<>>
    /\ calls = NoCalls
    /\ steps = 0
    /\ returned = <<>>
    /\ NoLog

\* The call of fn with arg leaves the log as io; frame keeps the last call
\* and the number of calls made.
LogCalled(fn, arg, io) ==
    /\ frame' = [fn |-> fn, arg |-> arg, n |-> frame.n + 1]
    /\ exc' = io.exc
    /\ pc' = IF io.exc = "none" THEN "call" ELSE "raised"
    /\ steps' = steps + 1
    /\ UNCHANGED returned
    /\ LogLeft(io)
    /\ UNCHANGED <<op, moment_vector, lambda_range, theta_segments, theta,
                   simplified_moments, caller, result, calls>>

\* Another call can be made.
LogCallable ==
    /\ op = "logging"
    /\ pc = "call"
    /\ frame.n < MaxLogCalls

SetLogfile ==
    /\ LogCallable
    /\ \E fname \in LogArguments : LogCalled("set_logfile", fname, set_logfile(Log, fname))
    /\ UNCHANGED warnings

StartLogfile ==
    /\ LogCallable
    /\ \E fname \in LogArguments :
           LogCalled("start_logfile", fname, start_logfile(Log, fname))
    /\ UNCHANGED warnings

WriteToLogfile ==
    /\ LogCallable
    /\ LogCalled("write_to_logfile", PyStr(LogText), write_to_logfile(Log, LogText, "a"))
    /\ UNCHANGED warnings

Warn ==
    /\ LogCallable
    /\ LogCalled("warn", PyStr(LogMessage), warn(Log, LogMessage))
    /\ warnings' = Append(warnings, LogMessage)

NextLog == SetLogfile \/ StartLogfile \/ WriteToLogfile \/ Warn

SpecLog == InitLog /\ [][NextLog]_vars

\* ------------------------------------------------------------------------
\* zbrent and brent, one pass of their loops at a time
\* ------------------------------------------------------------------------
\* theta holds x1, x2 of zbrent or ax, bx, cx of brent, simplified_moments
\* is xopt, lambda_range holds the lambda that zbrent looks for, and caller
\* the func passed to brent; frame holds the locals.
\* The ends passed to zbrent: ones with a root between them, ones without,
\* and infinite ones.
ZbrentEnds ==
    {<<FromInt(-50), Zero>>, <<Zero, Half>>, <<Zero, Two>>, <<NInf, Zero>>,
     <<Zero, PInf>>, <<FNeg(FloatMax), FloatMax>>}

\* The points passed to brent: a bracket of the grid, the whole line and a
\* bracket that ends at infinity.
BrentPoints ==
    {<<FromInt(-50), Zero, Half>>, <<FNeg(FloatMax), Zero, FloatMax>>,
     <<Zero, One, PInf>>}

\* The settings of the log file under which the routines are called.
LogSettings == {PyNone, PyStr("log.txt"), PyStr(ReadOnlyFile)}

InitRF ==
    /\ \/ /\ op = "zbrent"
          /\ theta \in ZbrentEnds
          /\ lambda_range \in {<<Zero>>, <<One>>, <<FromInt(-2)>>}
          /\ caller = [func |-> "lambda_minus_lambda"]
       \/ /\ op = "brent"
          /\ theta \in BrentPoints
          /\ lambda_range = <<>>
          /\ caller \in {[func |-> f] : f \in {"lambdafast", "negative_lambdafast"}}
    /\ moment_vector = <<>>
    /\ theta_segments = <<>>
    /\ pc = "call"
    /\ simplified_moments \in {SM(PlainMoments), SM(RctMoments)}
    /\ frame = <<>>
    /\ result = <<>>
    /\ exc = "none"
    /\ warnings = <<>>
    /\ calls = NoCalls
    /\ steps = 0
    /\ returned = <<>>
    /\ logfile \in LogSettings
    /\ files = [n \in {ReadOnlyFile} |-> <<>>]
    /\ pywarnings = <<>>

\* zbrent is called: lines 1106-1116.
ZB_Call ==
    /\ op = "zbrent"
    /\ pc = "call"
    /\ frame' = ZbrentStart(theta[1], theta[2],
                            lambda_minus_lambda(theta[1], lambda_range[1],
                                                simplified_moments),
                            lambda_minus_lambda(theta[2], lambda_range[1],
                                                simplified_moments))
    /\ calls' = [calls EXCEPT !.zbrent = @ + 1]
    /\ pc' = "zbrent_loop"
    /\ UNCHANGED <<op, moment_vector, lambda_range, theta_segments, theta,
                   simplified_moments, caller, result, exc, warnings>>
    /\ steps' = steps + 1
    /\ UNCHANGED returned
    /\ Logged(IF frame'.unbracketed THEN <<ZbrentUnbracketed>> ELSE <<>>)

\* One pass of the loop of line 1117.
ZB_Iter ==
    /\ op = "zbrent"
    /\ pc = "zbrent_loop"
    /\ ~frame.done
    /\ frame.iter < itmax
    /\ frame' = ZbrentIter(frame, Tol200, lambda_range[1], simplified_moments)
    /\ exc' = frame'.exc
    /\ pc' = IF frame'.exc = "none" THEN "zbrent_loop" ELSE "raised"
    /\ UNCHANGED <<op, moment_vector, lambda_range, theta_segments, theta,
                   simplified_moments, caller, result, warnings, calls>>
    /\ steps' = steps + 1
    /\ UNCHANGED returned
    /\ Logged(<<>>)

\* The loop is left by its break or at its end: lines 1162-1165.
ZB_Return ==
    /\ op = "zbrent"
    /\ pc = "zbrent_loop"
    /\ frame.done \/ frame.iter = itmax
    /\ frame' = ZbrentEnd(frame)
    /\ result' = <<frame'.solution>>
    /\ pc' = "done"
    /\ UNCHANGED <<op, moment_vector, lambda_range, theta_segments, theta,
                   simplified_moments, caller, exc, warnings, calls>>
    /\ steps' = steps + 1
    /\ UNCHANGED returned
    /\ Logged(IF frame'.capped THEN <<ZbrentCapped>> ELSE <<>>)

\* func of brent is negative_lambdafast.
Negated == caller.func = "negative_lambdafast"

\* brent is called: lines 1024-1041.
BR_Call ==
    /\ op = "brent"
    /\ pc = "call"
    /\ frame' = BrentStart(theta[1], theta[2], theta[3],
                           BrentFunc(Negated, theta[2], simplified_moments))
    /\ calls' = [calls EXCEPT !.brent = @ + 1]
    /\ pc' = "brent_loop"
    /\ UNCHANGED <<op, moment_vector, lambda_range, theta_segments, theta,
                   simplified_moments, caller, result, exc, warnings>>
    /\ steps' = steps + 1
    /\ UNCHANGED returned
    /\ Logged(<<>>)

\* One pass of the loop of line 1042.
BR_Iter ==
    /\ op = "brent"
    /\ pc = "brent_loop"
    /\ ~frame.done
    /\ frame.iter < itmax
    /\ frame' = BrentIter(frame, Tol10, Negated, simplified_moments)
    /\ UNCHANGED <<op, pc, moment_vector, lambda_range, theta_segments, theta,
                   simplified_moments, caller, result, exc, warnings, calls>>
    /\ steps' = steps + 1
    /\ UNCHANGED returned
    /\ Logged(<<>>)

\* The loop is left by its break or at its end: lines 1098-1101.
BR_Return ==
    /\ op = "brent"
    /\ pc = "brent_loop"
    /\ frame.done \/ frame.iter = itmax
    /\ frame' = BrentEnd(frame)
    /\ result' = <<frame'.solution>>
    /\ pc' = "done"
    /\ UNCHANGED <<op, moment_vector, lambda_range, theta_segments, theta,
                   simplified_moments, caller, exc, warnings, calls>>
    /\ steps' = steps + 1
    /\ UNCHANGED returned
    /\ Logged(IF frame'.capped THEN <<BrentCapped>> ELSE <<>>)

NextRF == ZB_Call \/ ZB_Iter \/ ZB_Return \/ BR_Call \/ BR_Iter \/ BR_Return

SpecRF == InitRF /\ [][NextRF]_vars

\* ------------------------------------------------------------------------
\* estimate_theta_segments
\* ------------------------------------------------------------------------
\* Valid and identified moments whose cov(x, z) is so small that theta_star
\* is finite and above thetamax (as E[XZ] = 1e-150 is in float64), or below
\* -thetamax.
FarMoments ==
    {[PlainMoments EXCEPT ![6] = FromRat(1, 2 ^ 20)],
     [PlainMoments EXCEPT ![6] = FromRat(-1, 2 ^ 20)]}

\* Moment vectors of every kind: valid ones, ones whose theta_star lies
\* outside the grid, ones whose cov(y, z) is too large for a good bracket of
\* theta_star to exist, ones whose var(zhat) is zero and ones whose XX is
\* singular.
\* Valid and identified moments of two controls whose theta_star is the
\* largest float below the limit on thetamax: cov(x1, z) = 2^-10 and
\* cov(x1, y) = theta_star * 2^-10.
NearLimitMoments ==
    <<Zero, Zero, Zero, Zero, One, Zero, <<2 ^ Prec - 1, ThetaLimit[2] - 11>>,
      FromRat(1, 1024), One, FromInt(128), Zero, FromInt(2 ^ 20), Zero, One>>

SegmentInputs ==
    {RctMoments, NearLimitMoments}
    \cup FarMoments
    \cup {mv \in Moments9 : mv[1] = Zero /\ mv[4] = Q(4) /\ mv[8] = Q(2)}
    \cup {mv \in Moments9 : mv[1] = Zero /\ mv[4] = Q(4) /\ mv[5] = Q(2) /\ mv[8] = Q(5)}
    \cup {mv \in Moments9 : mv[6] = Zero \/ (mv[1] = Q(4) /\ mv[4] = Q(4))}
    \cup Moments14

InitTS ==
    /\ op = "estimate_theta_segments"
    /\ moment_vector \in SegmentInputs
    /\ lambda_range = <<>>
    /\ theta_segments = <<>>
    /\ theta = <<>>
    /\ Fresh

\* Lines 337-398 are done: frame keeps the locals, ref being thetavec as
\* the loop of line 402 updates it.
TSStarted(loc) ==
    /\ frame' = [locals |-> loc, j |-> 1,
                 ref |-> [thetavec |-> loc.thetavec, nbrent |-> 0, capped |-> FALSE,
                          logged |-> <<>>]]
    /\ exc' = loc.exc
    /\ warnings' = warnings \o loc.cx.warnings
    /\ calls' = [calls EXCEPT !.estimate_theta_segments = @ + 1,
                              !.bracket_theta_star = @ + loc.cx.nbracket]
    /\ pc' = IF loc.exc = "none" THEN "ts_refine" ELSE "raised"

\* estimate_theta_segments is called, by estimate_model (line 317) or from
\* the outside.
TS_Call ==
    /\ \/ op = "estimate_theta_segments" /\ pc = "call"
       \/ op = "estimate_model" /\ pc = "segments"
    /\ simplified_moments' = SM(moment_vector)
    /\ TSStarted(SegmentsLocals(simplified_moments'))
    /\ UNCHANGED <<op, moment_vector, lambda_range, theta_segments, theta, caller,
                   result>>
    /\ steps' = steps + 1
    /\ UNCHANGED returned
    /\ Logged(<<>>)

\* One turn of the loop of line 402 leaves ref.
TSRefined(ref) ==
    /\ frame' = [frame EXCEPT !.ref = ref, !.j = @ + 1]
    /\ calls' = [calls EXCEPT !.brent = @ + (ref.nbrent - frame.ref.nbrent)]

TS_Refine ==
    /\ pc = "ts_refine"
    /\ frame.j < Len(frame.locals.localmin)
    /\ TSRefined(RefineStep(frame.j, frame.ref, frame.locals.localmin,
                            frame.locals.localmax, simplified_moments))
    /\ UNCHANGED <<op, pc, moment_vector, lambda_range, theta_segments, theta,
                   simplified_moments, caller, result, exc, warnings>>
    /\ steps' = steps + 1
    /\ UNCHANGED returned
    /\ Logged(SubSeq(frame'.ref.logged, Len(frame.ref.logged) + 1,
                      Len(frame'.ref.logged)))

\* estimate_theta_segments ends as s: it raises, returns to the outside, or
\* returns to estimate_model, which goes on to estimate_theta (lines 317-326).
TSEnded(s) ==
    /\ exc' = s.exc
    /\ IF s.exc # "none"
       THEN /\ pc' = "raised"
            /\ UNCHANGED <<theta_segments, caller, result>>
       ELSE IF op = "estimate_model"
       THEN /\ theta_segments' = s.theta_segments
            /\ caller' = [caller EXCEPT !.thetavec = s.thetavec,
                                        !.lambdavec = s.lambdavec]
            /\ pc' = "et_call"
            /\ UNCHANGED result
       ELSE /\ result' = <<s.theta_segments, s.thetavec, s.lambdavec>>
            /\ pc' = "done"
            /\ UNCHANGED <<theta_segments, caller>>

\* The loop of line 402 is over: lines 418-433.
TS_End ==
    /\ pc = "ts_refine"
    /\ frame.j >= Len(frame.locals.localmin)
    /\ TSEnded(SegmentsEnd(frame.locals.cx, frame.locals.lambdavec,
                           frame.locals.localmin, frame.locals.localmax,
                           frame.locals.i, frame.ref))
    /\ UNCHANGED <<op, moment_vector, lambda_range, theta, simplified_moments,
                   frame, warnings, calls>>
    /\ steps' = steps + 1
    /\ UNCHANGED returned
    /\ Logged(<<>>)

NextTS == TS_Call \/ TS_Refine \/ TS_End

SpecTS == InitTS /\ [][NextTS]_vars

\* bracket_theta_star on its own and estimate_theta_segments, which calls it.
InitBS == InitBT \/ InitTS

NextBS == BT_Call \/ BT_Trial \/ BT_Return \/ TS_Call \/ TS_Refine \/ TS_End

SpecBS == InitBS /\ [][NextBS]_vars

\* ------------------------------------------------------------------------
\* estimate_theta
\* ------------------------------------------------------------------------
\* The return of estimate_theta: to the outside, or into rows 3 and 4 of the
\* result_matrix of estimate_model, which then returns (lines 328-331).
ETReturn(theta_estimate) ==
    /\ result' = IF op = "estimate_theta" THEN theta_estimate
                 ELSE <<SubSeq(caller.result_matrix, 1, 3) \o theta_estimate,
                        caller.thetavec, caller.lambdavec>>
    /\ pc' = "done"

\* The locals of estimate_theta after line 526; tried keeps errmax and the
\* gradient of every step size h that the loop of line 618 has gone through
\* for the bound at hand.
ETLocals(lambda_star, theta_star, m) ==
    [lambda_star |-> lambda_star, theta_star |-> theta_star,
     important_thetas |-> <<>>, k |-> 1, i |-> 1, inrange |-> <<>>,
     theta_estimate |-> <<Zeros(m + 1), Zeros(m + 1)>>,
     j |-> 1, n |-> 1, a |-> <<>>, err |-> Zero, dfridr |-> Unassigned,
     dtheta |-> Zero, dmoments |-> Zeros(m), errmax |-> Zero, tried |-> <<>>]

\* Lines 502-526, given lambda_star: the early return or the start of the
\* search.
ETStart(lambda_star) ==
    IF LambdaStarInRange(lambda_star, lambda_range)
    THEN /\ ETReturn(UnidentifiedEstimate(Len(moment_vector)))
         /\ frame' = [lambda_star |-> lambda_star]
         /\ UNCHANGED simplified_moments
    ELSE /\ frame' = ETLocals(lambda_star, thetastar(moment_vector), Len(moment_vector))
         /\ simplified_moments' = SM(moment_vector)
         /\ pc' = "et_segments"
         /\ UNCHANGED result

\* estimate_theta is called (lines 490-526).
ET_Call ==
    /\ pc = "et_call"
    /\ ETStart(lambdastar(moment_vector))
    /\ calls' = [calls EXCEPT !.estimate_theta = @ + 1]
    /\ UNCHANGED <<op, moment_vector, lambda_range, theta_segments, theta, caller,
                   exc, warnings>>
    /\ steps' = steps + 1
    /\ UNCHANGED returned
    /\ Logged(<<>>)

RECURSIVE RootsLogged(_, _)
\* What the calls of zbrent that ended as roots[n], roots[n + 1], ... have
\* written to the log file.
RootsLogged(roots, n) ==
    IF n > Len(roots) THEN <<>>
    ELSE ZbrentLogged(roots[n]) \o RootsLogged(roots, n + 1)

\* The roots found in one segment are appended (lines 556-557).
ETAppend(roots) ==
    /\ frame' = [frame EXCEPT
                    !.important_thetas = @ \o [q \in 1..Len(roots) |-> roots[q].solution],
                    !.k = @ + Len(roots),
                    !.i = @ + 1]
    /\ calls' = [calls EXCEPT !.zbrent = @ + Len(roots)]

\* One turn of the loop of lines 528-557.
ET_Segment ==
    /\ pc = "et_segments"
    /\ frame.i < Len(theta_segments)
    /\ UNCHANGED <<op, pc, moment_vector, lambda_range, theta_segments, theta,
                   simplified_moments, caller, result, exc, warnings>>
    /\ \E roots \in {SegmentRoots(frame.i, frame.theta_star, lambda_range,
                                   theta_segments, simplified_moments)} :
           /\ ETAppend(roots)
           /\ steps' = steps + 1
           /\ UNCHANGED returned
           /\ Logged(RootsLogged(roots, 1))

\* Lines 574-594, given important_thetas and inrange.
ETBounded(important_thetas, inrange) ==
    frame' = [frame EXCEPT
                 !.important_thetas = important_thetas,
                 !.inrange = inrange,
                 !.theta_estimate =
                     <<<<LowerBound(important_thetas, inrange)>> \o Tail(@[1]),
                       <<UpperBound(important_thetas, inrange)>> \o Tail(@[2])>>]

\* Lines 559-594, given important_thetas.
ETRanged(important_thetas) ==
    ETBounded(important_thetas,
              InRange(important_thetas, frame.k, lambda_range, simplified_moments))

\* The loop of line 528 is over: the bounds are found (lines 558-594).
ET_Bounds ==
    /\ pc = "et_segments"
    /\ frame.i >= Len(theta_segments)
    /\ ETRanged(frame.important_thetas \o theta_segments)
    /\ pc' = "et_gradient"
    /\ UNCHANGED <<op, moment_vector, lambda_range, theta_segments, theta,
                   simplified_moments, caller, result, exc, warnings, calls>>
    /\ steps' = steps + 1
    /\ UNCHANGED returned
    /\ Logged(<<>>)

\* The loop of line 597 moves on to the next bound, or estimate_theta returns.
ETNextBound(fr) ==
    /\ frame' = [fr EXCEPT !.j = @ + 1]
    /\ IF fr.j = 2 THEN ETReturn(fr.theta_estimate)
       ELSE /\ pc' = "et_gradient"
            /\ UNCHANGED result

\* theta of line 598.
BoundOf(fr) == fr.theta_estimate[fr.j][1]

\* q more difference quotients have been evaluated.
Evaluated(q) == calls' = [calls EXCEPT !.quotients = @ + q]

\* The tableau i of the pass n begins (lines 627-633 or 669-675).
ETTableau(fr, n, i) ==
    [fr EXCEPT !.n = n, !.i = i, !.k = 1, !.err = FloatMax,
               !.a = <<GradientQuotient(i, BoundOf(fr), moment_vector,
                                        simplified_moments, StepTable[n][1])>>]

\* The pass n of the loop of line 618 begins (lines 619-633).
ETPass(fr, n) == ETTableau([fr EXCEPT !.errmax = Zero], n, 0)

\* The loop of line 597 reaches the bound j (lines 598-633, 719-721).
ET_Gradient ==
    /\ pc = "et_gradient"
    /\ IF IsFinite(BoundOf(frame))
       THEN /\ frame' = ETPass([frame EXCEPT !.tried = <<>>], 1)
            /\ pc' = "et_tableau"
            /\ Evaluated(1)
            /\ UNCHANGED result
       ELSE /\ ETNextBound([frame EXCEPT
                               !.theta_estimate[frame.j] =
                                   <<@[1]>> \o Zeros(Len(moment_vector))])
            /\ UNCHANGED calls
    /\ UNCHANGED <<op, moment_vector, lambda_range, theta_segments, theta,
                   simplified_moments, caller, exc, warnings>>
    /\ steps' = steps + 1
    /\ UNCHANGED returned
    /\ Logged(<<>>)

\* Lines 703-718: the pass is over.
ETPassDone(fr) ==
    IF FLt(fr.errmax, Hundredth) \/ fr.n = nmax
    THEN /\ ETNextBound([fr EXCEPT
                            !.theta_estimate[fr.j] =
                                <<@[1]>> \o GradientRow(fr.dmoments, fr.dtheta)])
         /\ warnings' = IF FLt(fr.errmax, Hundredth) THEN warnings
                        ELSE Append(warnings,
                                    "Inaccurate SE for thetaL/H. Try normalizing variables.")
         /\ Evaluated(1)
         /\ UNCHANGED exc
    ELSE /\ frame' = ETPass(fr, fr.n + 1)
         /\ Evaluated(2)
         /\ UNCHANGED <<pc, result, exc, warnings>>

\* The pass of the step size h = 0.1 ** fr.n is over: its errmax and the
\* gradient it leaves in dtheta and dmoments.
ETTried(fr) ==
    [fr EXCEPT !.tried = Append(@, [errmax |-> fr.errmax,
                                    gradient |-> GradientRow(fr.dmoments, fr.dtheta)])]

\* The derivative of the tableau i has been stored: the next tableau begins
\* (line 668), or the pass is over.
ETDerivative(fr) ==
    IF fr.i < Len(moment_vector)
    THEN /\ frame' = ETTableau(fr, fr.n, fr.i + 1)
         /\ Evaluated(2)
         /\ UNCHANGED <<pc, result, exc, warnings>>
    ELSE ETPassDone(ETTried(fr))

\* Lines 662-666 and 698-701: errmax and the derivative of the tableau i.
ETKept(fr) ==
    IF fr.i = 0
    THEN [fr EXCEPT !.errmax = PyMax2(@, fr.err), !.dtheta = fr.dfridr.v]
    ELSE [fr EXCEPT !.errmax = PyMax2(@, fr.err), !.dmoments[fr.i] = fr.dfridr.v]

\* The loop of line 635 (677) is left: reading a dfridr that was never
\* assigned raises.
ETTableauDone(fr) ==
    IF ~fr.dfridr.set
    THEN /\ exc' = "UnboundLocalError"
         /\ pc' = "raised"
         /\ frame' = [fr EXCEPT !.errmax = PyMax2(@, fr.err)]
         /\ Evaluated(1)
         /\ UNCHANGED <<result, warnings>>
    ELSE /\ ETDerivative(ETKept(fr))

\* Lines 660-661, fr being the locals after the column k and prev the
\* diagonal entry of the column before it.
ETColumned(prev, fr) ==
    IF LoopLeft(fr.k, prev, fr) THEN ETTableauDone(fr)
    ELSE /\ frame' = fr
         /\ Evaluated(1)
         /\ UNCHANGED <<pc, result, exc, warnings>>

\* One turn of the loop of line 635 (677): the next column of the tableau.
ET_Column ==
    /\ pc = "et_tableau"
    /\ \E q \in {GradientQuotient(frame.i, BoundOf(frame), moment_vector,
                                   simplified_moments, StepTable[frame.n][frame.k + 1])} :
           \E col \in {NevilleColumn(<<q>>, frame.a, frame.k + 1)} :
               ETColumned(frame.a[frame.k],
                          RiddersColumn([frame EXCEPT !.k = @ + 1], col))
    /\ UNCHANGED <<op, moment_vector, lambda_range, theta_segments, theta,
                   simplified_moments, caller>>
    /\ steps' = steps + 1
    /\ UNCHANGED returned
    /\ Logged(<<>>)

\* lambda_range arrays that pass check_lambda (no NaN, ascending): fixed
\* ones, among them single points and unbounded ranges.
LambdaRanges ==
    {<<Zero, Zero>>, <<FromRat(6, 5), FromRat(6, 5)>>, <<FromInt(3), FromInt(3)>>,
     <<Zero, One>>, <<NInf, One>>, <<Zero, PInf>>, <<One, Two>>,
     <<FromInt(3), FromInt(4)>>, <<FromInt(-2), FromInt(-2)>>}

HalfThousandth == FromRat(1, 2000)

\* Ranges that touch lambda_star, begin or end at it, or begin just above it.
RangesAt(lambda_star) ==
    IF IsFinite(lambda_star)
    THEN {<<lambda_star, lambda_star>>,
          <<lambda_star, FAdd(lambda_star, One)>>,
          <<FSub(lambda_star, One), lambda_star>>,
          <<FAdd(lambda_star, HalfThousandth), FAdd(lambda_star, One)>>}
    ELSE {}

\* The theta_segments passed for a moment vector: those that
\* estimate_theta_segments returns, if it returns, a single segment, and
\* the empty array.
SegmentsFor(segs) ==
    (IF segs.exc = "none" THEN {segs.theta_segments} ELSE {})
    \cup {<<FNeg(Fifty), Fifty>>, <<>>}

\* Moment vectors for estimate_theta.
ThetaInputs ==
    {PlainMoments, RctMoments,
     <<Zero, Zero, Zero, One, Half, Q(3), One, Half, One>>}

InitET ==
    /\ op = "estimate_theta"
    /\ moment_vector \in ThetaInputs
    /\ theta_segments \in SegmentsFor(estimate_theta_segments(moment_vector))
    /\ lambda_range \in LambdaRanges \cup RangesAt(lambdastar(moment_vector))
    /\ theta = <<>>
    /\ pc = "et_call"
    /\ simplified_moments = <<>>
    /\ frame = <<>>
    /\ caller = <<>>
    /\ result = <<>>
    /\ exc = "none"
    /\ warnings = <<>>
    /\ calls = NoCalls
    /\ steps = 0
    /\ returned = <<>>
    /\ NoLog

NextET == ET_Call \/ ET_Segment \/ ET_Bounds \/ ET_Gradient \/ ET_Column

SpecET == InitET /\ [][NextET]_vars

\* ------------------------------------------------------------------------
\* estimate_model
\* ------------------------------------------------------------------------
\* np.full((rows, cols), nan)
NaNMatrix(rows, cols) == [r \in 1..rows |-> [c \in 1..cols |-> NaN]]

\* estimate_model stops for invalid moments only.
StopsIfInvalid(valid, identified) == ~valid

\* Lines 294-299: estimate_model stops after check_moments.
StopsEarly(valid, identified) == ~valid \/ ~identified

\* The functions passed to estimate_parameter, in the order of lines 302-304.
ParameterFunctions == <<"lambdastar", "thetastar", "lambda0_fun">>

\* Lines 290-299, r being what check_moments returned.
EMChecked(r, matrix) ==
    /\ warnings' = warnings \o r.warnings
    /\ IF StopsEarly(r.valid, r.identified)
       THEN /\ result' = matrix
            /\ pc' = "done"
            /\ UNCHANGED caller
       ELSE /\ caller' = [result_matrix |-> matrix, row |-> 1,
                          thetavec |-> <<>>, lambdavec |-> <<>>]
            /\ pc' = "parameters"
            /\ UNCHANGED result

\* estimate_model is called (lines 288-299); s is what the simplify_moments
\* of check_moments does.
EMCalled(s) ==
    IF s.exc # "none"
    THEN /\ exc' = s.exc
         /\ pc' = "raised"
         /\ UNCHANGED <<caller, result, warnings>>
    ELSE /\ EMChecked(check_moments(moment_vector),
                      NaNMatrix(Len(lambda_range) + 3, Len(moment_vector) + 1))
         /\ UNCHANGED exc

\* The message of line 291.
EstimatingModel == "Estimating model.\n"

\* Line 291 raises e, or it returns and estimate_model goes on.
EMLogged(e) ==
    IF e # "none"
    THEN /\ exc' = e
         /\ pc' = "raised"
         /\ UNCHANGED <<caller, result, warnings, calls>>
    ELSE /\ EMCalled(simplify_moments(moment_vector))
         /\ calls' = [calls EXCEPT !.check_moments = @ + 1]

EM_Call ==
    /\ op = "estimate_model"
    /\ pc = "call"
    /\ EMLogged(write_to_logfile(Log, EstimatingModel, "a").exc)
    /\ UNCHANGED <<op, moment_vector, lambda_range, theta_segments, theta,
                   simplified_moments, frame>>
    /\ steps' = steps + 1
    /\ UNCHANGED returned
    /\ Logged(<<EstimatingModel>>)

\* estimate_parameter returns parameter_estimate into the row of
\* result_matrix that estimate_model is filling (lines 302-304).
EMRow(parameter_estimate) ==
    /\ caller' = [caller EXCEPT !.result_matrix[caller.row] = parameter_estimate,
                                !.row = @ + 1]
    /\ pc' = IF caller.row = 3 THEN "segments" ELSE "parameters"

\* The tableau i of the pass n begins with the quotient q (lines 961-973).
EPTableauAt(fr, n, i, q) ==
    [fr EXCEPT !.n = n, !.i = i, !.j = 1, !.err = Big300, !.a = <<q>>,
               !.dfridr = [set |-> TRUE, v |-> q]]

EPTableau(fr, n, i) ==
    EPTableauAt(fr, n, i, ParamQuotient(fr.func, moment_vector, i, StepTable[n][1]))

\* The pass n of the loop of line 952 begins (lines 953-973).
EPPass(fr, n) == EPTableau([fr EXCEPT !.errmax = Zero], n, 1)

\* The locals of estimate_parameter (lines 938-950), value being
\* func(moment_vector).
EPLocals(f, value) ==
    [func |-> f, parameter_estimate |-> <<value>> \o Zeros(Len(moment_vector)),
     n |-> 1, i |-> 1, j |-> 1, a |-> <<>>, err |-> Zero, dfridr |-> Unassigned,
     errmax |-> Zero, tried |-> <<>>]

\* A variant of EPStart that differentiates whatever value is.
EPStartAlways(f, value) ==
    /\ frame' = EPPass(EPLocals(f, value), 1)
    /\ pc' = "parameter_tableau"
    /\ calls' = [calls EXCEPT !.estimate_parameter = @ + 1, !.quotients = @ + 1]
    /\ UNCHANGED caller

\* Lines 938-973 and 1014-1016 of estimate_parameter.
EPStart(f, value) ==
    IF IsFinite(value)
    THEN /\ frame' = EPPass(EPLocals(f, value), 1)
         /\ pc' = "parameter_tableau"
         /\ calls' = [calls EXCEPT !.estimate_parameter = @ + 1, !.quotients = @ + 1]
         /\ UNCHANGED caller
    ELSE /\ EMRow(<<value>> \o Zeros(Len(moment_vector)))
         /\ calls' = [calls EXCEPT !.estimate_parameter = @ + 1]
         /\ UNCHANGED frame

\* estimate_model calls estimate_parameter for the next of its three
\* functions.
EM_Parameter ==
    /\ op = "estimate_model"
    /\ pc = "parameters"
    /\ EPStart(ParameterFunctions[caller.row],
               ParamFunc(ParameterFunctions[caller.row], moment_vector))
    /\ UNCHANGED <<op, moment_vector, lambda_range, theta_segments, theta,
                   simplified_moments, result, exc, warnings>>
    /\ steps' = steps + 1
    /\ UNCHANGED returned
    /\ Logged(<<>>)

\* Lines 1008-1016: the pass is over.
EPPassDone(fr) ==
    IF ParamDone(fr.n, fr)
    THEN /\ EMRow(fr.parameter_estimate)
         /\ frame' = fr
         /\ warnings' = IF FLt(fr.errmax, Hundredth) THEN warnings
                        ELSE Append(warnings, ParamWarning(fr.func))
         /\ Evaluated(1)
    ELSE /\ frame' = EPPass(fr, fr.n + 1)
         /\ Evaluated(2)
         /\ UNCHANGED <<pc, caller, warnings>>

\* The pass of the step size h = 0.1 ** fr.n is over: its errmax and the
\* gradient it leaves in parameter_estimate.
EPTried(fr) ==
    [fr EXCEPT !.tried = Append(@, [errmax |-> fr.errmax,
                                    gradient |-> Tail(fr.parameter_estimate)])]

\* Lines 1006-1007 are done for the tableau i: the next tableau begins
\* (line 957), or the pass is over.
EPDerivative(fr) ==
    IF fr.i < Len(moment_vector)
    THEN /\ frame' = EPTableau(fr, fr.n, fr.i + 1)
         /\ Evaluated(2)
         /\ UNCHANGED <<pc, caller, warnings>>
    ELSE EPPassDone(EPTried(fr))

\* Lines 1003-1007, fr being the locals after the column j and prev the
\* diagonal entry of the column before it.
EPColumned(prev, fr) ==
    IF LoopLeft(fr.j, prev, fr)
    THEN EPDerivative([fr EXCEPT !.errmax = PyMax2(@, fr.err),
                                 !.parameter_estimate[fr.i + 1] = fr.dfridr.v])
    ELSE /\ frame' = fr
         /\ Evaluated(1)
         /\ UNCHANGED <<pc, caller, warnings>>

\* One turn of the loop of line 975: the next column of the tableau.
EM_ParameterColumn ==
    /\ op = "estimate_model"
    /\ pc = "parameter_tableau"
    /\ \E q \in {ParamQuotient(frame.func, moment_vector, frame.i,
                                StepTable[frame.n][frame.j + 1])} :
           \E col \in {NevilleColumn(<<q>>, frame.a, frame.j + 1)} :
               EPColumned(frame.a[frame.j],
                          RiddersColumn([frame EXCEPT !.j = @ + 1], col))
    /\ UNCHANGED <<op, moment_vector, lambda_range, theta_segments, theta,
                   simplified_moments, result, exc>>
    /\ steps' = steps + 1
    /\ UNCHANGED returned
    /\ Logged(<<>>)

\* Moment vectors for estimate_model: of a wrong length, invalid,
\* unidentified, with a singular XX, with var(zhat) = 0, and valid ones.
\* Moments of two controls, y depending on the first and z, weakly, on the
\* second, so that theta_star is 0 and its difference quotients are rounding
\* noise at every step size.
NoisyMoments ==
    <<Zero, Zero, Zero, Zero, One, Zero, FromRat(5, 8), Zero, One, Zero,
      FromRat(3, 128), One, Zero, One>>

ModelInputs ==
    AnyLength
    \cup {NoisyMoments}
    \cup {mv \in Moments9 : mv[1] = Zero /\ mv[4] = Q(4)}
    \cup {mv \in Moments9 : mv[1] = Q(4) /\ mv[4] = Q(4) /\ mv[6] = Q(2)}
    \cup {[PlainMoments EXCEPT ![7] = Q(y)] : y \in {0, 1, -4}}
    \cup {[PlainMoments EXCEPT ![9] = Q(z)] : z \in {0, -4}}
    \cup {PlainMoments, RctMoments}

\* lambda_range arrays for estimate_model: a point, an interval, and a
\* point that no lambda(theta) reaches.
ModelRanges == {<<Zero, Zero>>, <<Zero, One>>, <<FromInt(-2), FromInt(-2)>>}

InitEM ==
    /\ op = "estimate_model"
    /\ moment_vector \in ModelInputs
    /\ lambda_range \in ModelRanges
    /\ theta_segments = <<>>
    /\ theta = <<>>
    /\ Fresh

NextEM ==
    \/ EM_Call
    \/ EM_Parameter
    \/ EM_ParameterColumn
    \/ TS_Call
    \/ TS_Refine
    \/ TS_End
    \/ ET_Call
    \/ ET_Segment
    \/ ET_Bounds
    \/ ET_Gradient
    \/ ET_Column

SpecEM == InitEM /\ [][NextEM]_vars

\* ------------------------------------------------------------------------
\* estimate_model called twice with the same arguments
\* ------------------------------------------------------------------------
\* The largest number of calls of estimate_model in one run.
MaxModelCalls == 2

\* Moment vectors for the repeated call: valid ones, an invalid one and one
\* of a wrong length.
RepeatInputs ==
    {PlainMoments, RctMoments, [PlainMoments EXCEPT ![7] = Zero], <<Zero, Q(1)>>}

\* The names passed to set_logfile before a call.
RepeatSettings == {PyNone, PyStr("log.txt"), PyStr(ReadOnlyFile), PyStr(NulName)}

InitRP ==
    /\ op = "estimate_model"
    /\ moment_vector \in RepeatInputs
    /\ lambda_range = <<Zero, One>>
    /\ theta_segments = <<>>
    /\ theta = <<>>
    /\ pc = "call"
    /\ simplified_moments = <<>>
    /\ frame = <<>>
    /\ caller = <<>>
    /\ result = <<>>
    /\ exc = "none"
    /\ warnings = <<>>
    /\ calls = NoCalls
    /\ logfile \in RepeatSettings
    /\ files = [n \in {ReadOnlyFile} |-> <<>>]
    /\ pywarnings = <<>>
    /\ steps = 0
    /\ returned = <<>>

\* The call has ended; the caller keeps how it ended, calls set_logfile and
\* calls estimate_model again with the same moment_vector and lambda_range.
EM_Again ==
    /\ op = "estimate_model"
    /\ pc \in {"done", "raised"}
    /\ Len(returned) + 1 < MaxModelCalls
    /\ returned' = Append(returned, [result |-> result, exc |-> exc])
    /\ \E fname \in RepeatSettings : LogLeft(set_logfile(Log, fname))
    /\ pc' = "call"
    /\ simplified_moments' = <<>>
    /\ theta_segments' = <<>>
    /\ frame' = <<>>
    /\ caller' = <<>>
    /\ result' = <<>>
    /\ exc' = "none"
    /\ steps' = steps + 1
    /\ UNCHANGED <<op, moment_vector, lambda_range, theta, warnings, calls>>

NextRP ==
    \/ EM_Call
    \/ EM_Parameter
    \/ EM_ParameterColumn
    \/ TS_Call
    \/ TS_Refine
    \/ TS_End
    \/ ET_Call
    \/ ET_Segment
    \/ ET_Bounds
    \/ ET_Gradient
    \/ ET_Column
    \/ EM_Again

SpecRP == InitRP /\ [][NextRP]_vars

\* ------------------------------------------------------------------------
\* The routines that iterate: estimate_model, bracket_theta_star, zbrent
\* and brent
\* ------------------------------------------------------------------------
InitRC == InitEM \/ InitBT \/ InitRF

NextRC ==
    \/ EM_Call
    \/ EM_Parameter
    \/ EM_ParameterColumn
    \/ TS_Call
    \/ TS_Refine
    \/ TS_End
    \/ ET_Call
    \/ ET_Segment
    \/ ET_Bounds
    \/ ET_Gradient
    \/ ET_Column
    \/ BT_Call
    \/ BT_Trial
    \/ BT_Return
    \/ ZB_Call
    \/ ZB_Iter
    \/ ZB_Return
    \/ BR_Call
    \/ BR_Iter
    \/ BR_Return

SpecRC == InitRC /\ [][NextRC]_vars

\* The interpreter takes the next step of a call that has not ended.
Tick == pc \notin {"done", "raised"} /\ steps' = steps + 1

FairRC == InitRC /\ [][NextRC]_vars /\ WF_steps(Tick)

\* ------------------------------------------------------------------------
\* Properties of simplify_moments and check_moments
\* ------------------------------------------------------------------------
\* m and k of simplify_moments for the vector in the state.
LenM == Len(moment_vector)
\* Some integer k >= 4 has 2 (m + 1) = k^2 + k.
AdmitsK == \E k \in 4..(LenM + 4) : 2 * (LenM + 1) = k * k + k

\* C7: simplify_moments raises AssertionError for exactly the lengths m that
\* admit no integer k >= 4 with 2 (m + 1) = k^2 + k, and accepts the others.
C7_LengthRejected ==
    (op = "simplify_moments" /\ pc # "call")
        => ((exc = "AssertionError") <=> ~AdmitsK)

\* C8: for a vector of length 9 (k = 4) the sixth simplified moment is
\* sign(c) * sqrt(s3 * s4), c being the covariance computed by partialling
\* out and s3, s4 the fourth and fifth simplified moments; for a longer
\* vector (k > 4) the computed covariance is returned unchanged.
C8_SixthMoment ==
    (op = "simplify_moments" /\ pc \in {"simplified", "checked"})
        => /\ LenM = 9 =>
                simplified_moments[6]
                    = FMul(FSign(frame.c),
                           FSqrt(FMul(simplified_moments[4], simplified_moments[5])))
           /\ LenM > 9 => simplified_moments[6] = frame.c

\* A vector of length 9 whose computed covariance is negative and whose sixth
\* moment has been forced to a nonzero value.
C8_Witness ==
    /\ op = "simplify_moments" /\ pc = "simplified" /\ LenM = 9
    /\ FLt(frame.c, Zero)
    /\ FLt(simplified_moments[6], Zero)
    /\ simplified_moments[6]
           = FNeg(FSqrt(FMul(simplified_moments[4], simplified_moments[5])))

\* XX of the vector in the state cannot be inverted.
SingularXX ==
    /\ AdmitsK
    /\ ~inv(LeadingBlock(CrossProducts(moment_vector, KOfLen(LenM)), KOfLen(LenM))).ok

\* C9: when XX cannot be inverted simplify_moments raises nothing, returns
\* the first three moments as usual and NaN in the last three, and
\* check_moments classifies the vector as invalid.
C9_SingularXX ==
    (op = "simplify_moments" /\ pc # "call" /\ SingularXX)
        => /\ exc = "none"
           /\ simplified_moments[1]
                = FSub(moment_vector[LenM - 2],
                       FMul(moment_vector[KOfLen(LenM) - 2], moment_vector[KOfLen(LenM) - 2]))
           /\ simplified_moments[2]
                = FSub(moment_vector[LenM],
                       FMul(moment_vector[KOfLen(LenM) - 1], moment_vector[KOfLen(LenM) - 1]))
           /\ simplified_moments[3]
                = FSub(moment_vector[LenM - 1],
                       FMul(moment_vector[KOfLen(LenM) - 1], moment_vector[KOfLen(LenM) - 2]))
           /\ \A n \in 4..6 : IsNaN(simplified_moments[n])
           /\ pc = "checked" => result[1] = FALSE

\* check_moments has classified a vector whose XX is singular.
C9_Witness ==
    /\ op = "simplify_moments" /\ pc = "checked" /\ SingularXX
    /\ result = <<FALSE, FALSE>>
    /\ \A n \in 1..3 : IsFinite(simplified_moments[n])

\* ------------------------------------------------------------------------
\* Properties of lambdafast
\* ------------------------------------------------------------------------
\* The condition under which lambdafast computes an entry, written with the
\* numerators and denominators at theta[n].
Computed(n) ==
    /\ FNe(lf0_denom(theta[n], simplified_moments), Zero)
    /\ FNe(lf1_denom(theta[n], simplified_moments), Zero)
    /\ FEq(FSign(lf0_num(theta[n], simplified_moments)),
           FSign(lf0_denom(theta[n], simplified_moments)))

\* C10: lambdafast returns one entry per input theta, in order; the entry is
\* NaN unless lf0_denom # 0, lf1_denom # 0 and sign(lf0_num) = sign(lf0_denom),
\* and is (lf1_num / lf1_denom) * sqrt(lf0_num / lf0_denom) otherwise.
C10_LambdaFast ==
    (op = "lambdafast" /\ pc = "done")
        => /\ Len(result) = Len(theta)
           /\ \A n \in 1..Len(theta) :
                result[n] =
                    IF Computed(n)
                    THEN FMul(FDiv(lf1_num(theta[n], simplified_moments),
                                   lf1_denom(theta[n], simplified_moments)),
                              FSqrt(FDiv(lf0_num(theta[n], simplified_moments),
                                         lf0_denom(theta[n], simplified_moments))))
                    ELSE NaN

\* Three thetas: the first at the pole, where lf1_denom = 0 and the other
\* two conditions hold, the other two with different finite values.
C10_Witness ==
    /\ op = "lambdafast" /\ pc = "done" /\ Len(theta) = 3
    /\ FEq(lf1_denom(theta[1], simplified_moments), Zero)
    /\ FNe(lf0_denom(theta[1], simplified_moments), Zero)
    /\ FEq(FSign(lf0_num(theta[1], simplified_moments)),
           FSign(lf0_denom(theta[1], simplified_moments)))
    /\ IsNaN(result[1])
    /\ IsFinite(result[2]) /\ IsFinite(result[3])
    /\ FLt(result[2], result[3])

\* ------------------------------------------------------------------------
\* Properties of estimate_theta_segments
\* ------------------------------------------------------------------------
\* C6: whenever theta_star is not finite, estimate_theta_segments ends with
\* the error of reading the unassigned variable i, without having called
\* bracket_theta_star or run any branch taken for a finite theta_star.
C6_UnassignedIndex ==
    (op = "estimate_theta_segments" /\ ~IsFinite(thetastar(moment_vector)))
        => /\ pc # "done"
           /\ result = <<>>
           /\ calls.bracket_theta_star = 0
           /\ warnings = <<>>
           /\ exc \in {"none", "UnboundLocalError"}
           /\ pc = "raised" <=> exc = "UnboundLocalError"
           /\ pc = "ts_refine" => frame.locals.i = 0

\* The call on the moments of the randomised treatment has failed.
C6_Witness ==
    /\ op = "estimate_theta_segments" /\ pc = "raised"
    /\ moment_vector = RctMoments
    /\ IsNaN(thetastar(moment_vector))
    /\ exc = "UnboundLocalError"
    /\ calls.bracket_theta_star = 0

\* C11: for every moment vector, lambda0_fun(moment_vector) and lambdafast
\* at theta = 0 on simplify_moments(moment_vector) agree: both are NaN, or
\* neither is and they are equal.
C11_LambdaZeroAgrees ==
    (op = "lambda0_fun" /\ pc = "done")
        => /\ IsNaN(result[1]) <=> IsNaN(result[2])
           /\ ~IsNaN(result[1]) => FEq(result[1], result[2])

\* The two agree whenever all six simplified moments are finite.
C11_FiniteAgrees ==
    (op = "lambda0_fun" /\ pc = "done" /\ AllFinite(simplified_moments))
        => /\ IsNaN(result[1]) <=> IsNaN(result[2])
           /\ ~IsNaN(result[1]) => FEq(result[1], result[2])

\* A row whose estimate is not finite has a gradient of zeros.
RowZero(row) == ~IsFinite(row[1]) => \A c \in 2..Len(row) : row[c] = Zero

\* The rows that estimate_parameter and estimate_theta have returned to
\* estimate_model so far.
RowsReturned ==
    IF op # "estimate_model" \/ caller = <<>> THEN {}
    ELSE {caller.result_matrix[r] : r \in 1..(caller.row - 1)}
         \cup (IF pc = "done" THEN {result[1][4], result[1][5]} ELSE {})

\* What a step does with a quantity that is not finite: no difference
\* quotient is evaluated, no tableau is begun and the row is the value
\* followed by zeros.
C12_Step ==
    /\ (/\ op = "estimate_model" /\ pc = "parameters"
        /\ ~IsFinite(ParamFunc(ParameterFunctions[caller.row], moment_vector)))
           => /\ calls'.quotients = calls.quotients
              /\ calls'.estimate_parameter = calls.estimate_parameter + 1
              /\ pc' \in {"parameters", "segments"}
              /\ caller'.result_matrix[caller.row] =
                     <<ParamFunc(ParameterFunctions[caller.row], moment_vector)>>
                         \o Zeros(Len(moment_vector))
    /\ (pc = "et_gradient" /\ ~IsFinite(BoundOf(frame)))
           => /\ calls'.quotients = calls.quotients
              /\ pc' \in {"et_gradient", "done"}
              /\ frame'.theta_estimate[frame.j] =
                     <<BoundOf(frame)>> \o Zeros(Len(moment_vector))
    /\ (pc = "et_call" /\ pc' = "done") => calls'.quotients = calls.quotients

\* C12: every quantity estimated by estimate_parameter or estimate_theta
\* whose value is not finite has a gradient row of zeros, and no difference
\* quotient is evaluated for it.
C12_NonFiniteRows ==
    [][C12_Step /\ \A row \in RowsReturned' : RowZero(row)]_vars

\* estimate_model has returned NaN bounds with zero gradients next to
\* finite parameters that were differentiated.
C12_Witness ==
    /\ op = "estimate_model" /\ pc = "done" /\ exc = "none"
    /\ calls.estimate_parameter = 3
    /\ IsNaN(result[1][4][1]) /\ IsNaN(result[1][5][1])
    /\ \A c \in 2..Len(result[1][4]) : result[1][4][c] = Zero /\ result[1][5][c] = Zero
    /\ IsFinite(result[1][1][1])
    /\ calls.quotients > 0

\* x and y are the same float: both NaN, or equal.
SameFloat(x, y) == IF IsNaN(x) \/ IsNaN(y) THEN IsNaN(x) /\ IsNaN(y) ELSE FEq(x, y)

\* C17: the thetavec and lambdavec that estimate_theta_segments returns
\* have the same length imax, and lambdavec[j] is lambda at the returned
\* thetavec[j] for every j.
C17_LambdaAtTheta ==
    (op = "estimate_theta_segments" /\ pc = "done")
        => /\ Len(result[2]) = imax
           /\ Len(result[3]) = imax
           /\ \A j \in 1..imax :
                  SameFloat(result[3][j], Lambda1(result[2][j], simplified_moments))

\* The two arrays have the length imax, and lambdavec[j] is lambda at the
\* returned thetavec[j] wherever brent did not replace thetavec[j].
C17_LambdaAtGrid ==
    (op = "estimate_theta_segments" /\ pc = "done")
        => /\ Len(result[2]) = imax
           /\ Len(result[3]) = imax
           /\ \A j \in 1..imax :
                  (~frame.locals.localmin[j] /\ ~frame.locals.localmax[j])
                      => SameFloat(result[3][j],
                                   Lambda1(result[2][j], simplified_moments))

\* The trials of bracket_theta_star that qualify for the moment vector.
Qualifying ==
    GoodTrials(frame.theta_star, frame.true_limit, simplified_moments)

SetMin(S) == CHOOSE x \in S : \A y \in S : x <= y

\* C20: bracket_theta_star returns the candidate of the smallest i that
\* qualifies, the widest qualifying pair.
C20_WidestBracket ==
    (op = "bracket_theta_star" /\ pc = "done" /\ result # <<>>)
        => /\ frame.j = SetMin(Qualifying)
           /\ result = Candidate(frame.theta_star, TenthPowers[SetMin(Qualifying)])

\* It returns the candidate of the largest i that qualifies, the narrowest
\* qualifying pair, and None with a warning when no trial qualifies.
C20_NarrowestBracket ==
    (op = "bracket_theta_star" /\ pc = "done" /\ frame # <<>>)
        => /\ frame.i = ntrials + 1
           /\ IF Qualifying = {}
              THEN result = <<>> /\ frame.j = 0
                   /\ warnings = <<"Unable to find a good bracket for theta_star">>
              ELSE /\ frame.j = SetMax(Qualifying)
                   /\ result = Candidate(frame.theta_star, TenthPowers[SetMax(Qualifying)])
                   /\ warnings = <<>>

\* Several trials qualify, and the bracket of the last of them is returned.
C20_SeveralQualify ==
    /\ op = "bracket_theta_star" /\ pc = "done" /\ result # <<>>
    /\ Cardinality(Qualifying) > 1
    /\ frame.j = SetMax(Qualifying)

\* o is an array of one dimension with exactly two elements.
IsPair(o) == o.type = "ndarray" /\ Len(o.shape) = 1 /\ o.shape[1] = 2

\* What C16 says check_lambda does with o.
Expected(o) ==
    IF ~IsPair(o) THEN "TypeError"
    ELSE IF IsNaN(o.data[1]) \/ IsNaN(o.data[2]) \/ FGt(o.data[1], o.data[2])
    THEN "ValueError"
    ELSE "none"

\* What a step of fit does with its lambda_range: an override is made an
\* array and checked before estimate_model is called, and estimate_model is
\* called with a pair that check_lambda accepts.
C16_Step ==
    /\ (op = "fit" /\ pc = "call" /\ lambda_range # PyNone)
           => /\ exc' = Expected(np_asarray(lambda_range))
              /\ pc' = "raised" <=> exc' # "none"
              /\ op' = "fit" /\ calls' = NoCalls
    /\ (op = "fit" /\ op' = "estimate_model")
           => /\ pc = "checked" /\ exc = "none"
              /\ Expected(lambda_range) = "none"
              /\ lambda_range' = lambda_range.data

\* C16: check_lambda raises TypeError unless lambda_range is a 1-d array
\* of exactly 2 elements, raises ValueError when an element is NaN or
\* lambda_range[0] > lambda_range[1], and accepts every other pair; fit
\* applies it to an override before estimate_model is called.
C16_CheckLambda ==
    [][/\ C16_Step
       /\ (op = "check_lambda" /\ pc = "call")
              => /\ exc' = Expected(lambda_range)
                 /\ pc' = IF exc' = "none" THEN "done" ELSE "raised"]_vars

\* fit has made a list an array, check_lambda has accepted its equal
\* endpoints, and estimate_model is about to be called with them.
C16_Witness ==
    /\ op = "estimate_model" /\ pc = "call" /\ exc = "none"
    /\ moment_vector = PlainMoments
    /\ lambda_range = <<One, One>>
    /\ calls = NoCalls

\* ------------------------------------------------------------------------
\* Properties of the log file
\* ------------------------------------------------------------------------
\* The last call was start_logfile with a name that is neither a string
\* nor None.
NotAStringStarted ==
    /\ op = "logging"
    /\ frame.fn = "start_logfile"
    /\ frame.arg.type \notin {"str", "NoneType"}

\* C18: start_logfile called with a name that is neither a string nor None
\* does nothing, whatever log file was set before: the log-file setting is
\* unchanged and no file is created, truncated or written.
C18_NotAString ==
    [][NotAStringStarted' => (logfile' = logfile /\ files' = files)]_vars

\* The log file cannot be opened for writing.
CannotOpen == logfile # PyNone /\ Open(logfile.data) # "none"

\* C19: a failure to open or write the log file never raises:
\* write_to_logfile issues the warning 'Cannot write to logfile' and
\* returns, and when the log file is None it does nothing at all.
C19_WriteNeverRaises ==
    [][(op = "logging" /\ frame'.fn = "write_to_logfile")
          => /\ exc' = "none"
             /\ CannotOpen =>
                    /\ Len(pywarnings') = Len(pywarnings) + 1
                    /\ pywarnings'[Len(pywarnings')]
                           = "Cannot write to logfile " \o logfile.data \o "."
                    /\ files' = files
             /\ logfile = PyNone =>
                    UNCHANGED <<logfile, files, pywarnings>>]_vars

\* ------------------------------------------------------------------------
\* Properties of the recoverable conditions
\* ------------------------------------------------------------------------
\* The step finds no good bracket for theta_star (line 485).
NoGoodBracket ==
    op = "bracket_theta_star" /\ pc = "trials" /\ pc' = "done" /\ frame.j = 0

\* The step finds that the ends passed to zbrent bracket no root (line 1112).
RootNotBracketed == op = "zbrent" /\ pc = "call" /\ frame'.unbracketed

\* The step finds the loop of zbrent or of brent at its cap (lines 1098, 1162).
CapExhausted ==
    op \in {"zbrent", "brent"} /\ pc # "done" /\ pc' = "done" /\ frame'.capped

\* The step ends the last pass of a gradient with an error of 0.01 or more
\* (lines 713 and 1012).
GradientInaccurate ==
    /\ \/ pc = "et_tableau" /\ pc' \in {"et_gradient", "done"}
       \/ pc = "parameter_tableau" /\ pc' \in {"parameters", "segments"}
    /\ ~FLt(frame'.errmax, Hundredth)

\* The step calls warn once: the message reaches the Python warnings, and
\* the log file if one is set that can be written.
WarnedOnce ==
    /\ Len(warnings') = Len(warnings) + 1
    /\ Len(pywarnings') > Len(pywarnings)
    /\ pywarnings'[Len(pywarnings')] = warnings'[Len(warnings')]
    /\ (logfile # PyNone /\ Open(logfile.data) = "none") => files' # files

\* C15: every recoverable condition (no good bracket for theta_star, ends
\* of zbrent that bracket no root, the cap reached in brent or in zbrent, an
\* inaccurate gradient) is reported through warn, which writes to the log
\* and raises a Python warning, and none of them halts the computation.
C15_ReportedByWarn ==
    [][(NoGoodBracket \/ RootNotBracketed \/ CapExhausted \/ GradientInaccurate)
          => (WarnedOnce /\ exc' = "none" /\ pc' # "raised")]_vars

\* The two conditions that the code passes to warn are reported by it, and
\* no condition halts the computation.
C15_WarnedConditions ==
    [][/\ (NoGoodBracket \/ GradientInaccurate) => WarnedOnce
       /\ (NoGoodBracket \/ RootNotBracketed \/ CapExhausted \/ GradientInaccurate)
              => (exc' = "none" /\ pc' # "raised")]_vars

\* ------------------------------------------------------------------------
\* Properties of the iteration caps
\* ------------------------------------------------------------------------
\* The call has ended: it has returned or raised.
Ended == pc \in {"done", "raised"}

\* The loops are within their caps: the passes of zbrent and brent, the
\* columns of a Ridders tableau and the initial step sizes tried, and the
\* trials of bracket_theta_star.
WithinCaps ==
    /\ (op \in {"zbrent", "brent"} /\ pc # "call") => frame.iter <= itmax
    /\ pc = "et_tableau" => (frame.k <= ntab /\ frame.n <= nmax)
    /\ pc = "parameter_tableau" => (frame.j <= ntab /\ frame.n <= nmax)
    /\ (op = "bracket_theta_star" /\ pc = "trials") => frame.i - 1 <= ntrials

\* zbrent or brent has returned from a loop that reached its cap.
ReturnedAtCap ==
    op \in {"zbrent", "brent"} /\ pc = "done" /\ ~frame.done /\ frame.iter = itmax

\* At its cap zbrent returns b and brent returns x, the point that it holds
\* when the loop ends.
CapReturnsPoint ==
    ReturnedAtCap => result = <<IF op = "zbrent" THEN frame.b ELSE frame.x>>

\* bracket_theta_star has returned after exactly ntrials trials.
AllTrialsRun == frame # <<>> /\ frame.i - 1 = ntrials

\* bracket_theta_star has returned from line 447, before its loop.
ReturnedBeforeLoop ==
    /\ frame = <<>>
    /\ FEq(simplified_moments[3],
           FDiv(FMul(simplified_moments[6], simplified_moments[2]),
                simplified_moments[5]))

\* C14 as it is stated: every call ends, brent and zbrent run at most 1000
\* passes, Ridders refinement at most 10 levels for each of at most 10
\* initial step sizes, bracket_theta_star runs exactly 100 trials in every
\* call, and at its cap brent or zbrent returns the point it holds.
C14_ExactlyHundredTrials ==
    /\ <>Ended
    /\ [](WithinCaps /\ CapReturnsPoint)
    /\ []((op = "bracket_theta_star" /\ pc = "done") => AllTrialsRun)

\* C14, amended: every call ends, the loops are within their caps, at its
\* cap brent or zbrent returns the point it holds, and bracket_theta_star
\* runs exactly 100 trials unless it returns before its loop, which it does
\* when cov(y,z) equals cov(yhat,zhat) * var(z) / var(zhat).
C14_Terminates ==
    /\ <>Ended
    /\ [](WithinCaps /\ CapReturnsPoint)
    /\ []((op = "bracket_theta_star" /\ pc = "done")
              => (AllTrialsRun \/ ReturnedBeforeLoop))

\* zbrent has returned NaN from a loop that ran to its cap.
C14_Witness ==
    /\ op = "zbrent" /\ ReturnedAtCap
    /\ frame.capped
    /\ result = <<NaN>>

\* ------------------------------------------------------------------------
\* Properties of the repeated call
\* ------------------------------------------------------------------------
\* A call of estimate_model has ended after an earlier one.
Repeated == op = "estimate_model" /\ pc \in {"done", "raised"} /\ returned # <<>>

\* C13: two calls of estimate_model with identical moment_vector and
\* lambda_range end alike, with identical results, whatever the log-file
\* setting is at each call.
C13_SameResult ==
    Repeated => (result = returned[1].result /\ exc = returned[1].exc)

\* Two calls that both get past the log message of line 291 end alike.
C13_SameUnlessLogRaises ==
    (Repeated /\ "ValueError" \notin {exc, returned[1].exc})
        => (result = returned[1].result /\ exc = returned[1].exc)

\* ------------------------------------------------------------------------
\* estimate_theta: an unidentified theta (lines 508-517)
\* ------------------------------------------------------------------------
\* lambda_range[0] <= lambda_star <= lambda_range[1] for the arguments of the
\* call.
LambdaStarBetween ==
    /\ FLe(lambda_range[1], lambdastar(moment_vector))
    /\ FLe(lambdastar(moment_vector), lambda_range[2])

\* Two rows of 1 + m entries: -inf and +inf followed by zeros.
WholeLine(est) ==
    /\ Len(est) = 2
    /\ \A r \in 1..2 :
           /\ Len(est[r]) = Len(moment_vector) + 1
           /\ \A c \in 2..Len(est[r]) : est[r][c] = Zero
    /\ est[1][1] = NInf
    /\ est[2][1] = PInf

\* C1: when lambda_range[0] <= lambda_star <= lambda_range[1], both ends
\* included, estimate_theta returns -infinity and +infinity as the bounds of
\* theta, each with an all-zero gradient row, and it neither looks for a root
\* nor takes a difference quotient: it returns from its first step.
C1_WholeLine ==
    (op = "estimate_theta" /\ pc # "et_call" /\ LambdaStarBetween)
        => /\ pc = "done"
           /\ WholeLine(result)
           /\ calls.zbrent = 0
           /\ calls.quotients = 0
           /\ exc = "none"

\* estimate_theta has returned for a lambda_star at the upper end of
\* lambda_range and theta_segments the search could have gone through.
C1_Witness ==
    /\ op = "estimate_theta"
    /\ pc = "done"
    /\ lambdastar(moment_vector) = lambda_range[2]
    /\ FLt(lambda_range[1], lambda_range[2])
    /\ Len(theta_segments) >= 2
    /\ WholeLine(result)

\* ------------------------------------------------------------------------
\* estimate_theta: the bounds of theta (lines 558-594)
\* ------------------------------------------------------------------------
\* estimate_theta has gone through lines 558-594.
BoundsFound ==
    /\ op = "estimate_theta"
    /\ pc \in {"et_gradient", "et_tableau", "done", "raised"}
    /\ ~LambdaStarBetween

\* The positions of the important thetas that are in range.
InRangeAt == {n \in 1..Len(frame.important_thetas) : frame.inrange[n]}

\* The position n holds the smallest (largest) of the thetas at the
\* positions S.
SmallestAt(n, S) ==
    \A q \in S : FLe(frame.important_thetas[n], frame.important_thetas[q])

LargestAt(n, S) ==
    \A q \in S : FGe(frame.important_thetas[n], frame.important_thetas[q])

\* The bounds as the claim states them.
LowerStated ==
    IF InRangeAt = {} THEN NaN
    ELSE IF \E n \in InRangeAt : SmallestAt(n, 1..Len(frame.important_thetas))
         THEN NInf
         ELSE frame.important_thetas[CHOOSE n \in InRangeAt : SmallestAt(n, InRangeAt)]

UpperStated ==
    IF InRangeAt = {} THEN NaN
    ELSE IF \E n \in InRangeAt : LargestAt(n, 1..Len(frame.important_thetas))
         THEN PInf
         ELSE frame.important_thetas[CHOOSE n \in InRangeAt : LargestAt(n, InRangeAt)]

\* C2: with lambda_star outside lambda_range, the lower bound of
\* estimate_theta is NaN if no important theta is in range, else -infinity if
\* the smallest important theta is in range, else the smallest important
\* theta that is in range; the upper bound likewise with the largest one and
\* +infinity. The bounds are the first column of what estimate_theta returns.
C2_Bounds ==
    BoundsFound
        => /\ frame.theta_estimate[1][1] = LowerStated
           /\ frame.theta_estimate[2][1] = UpperStated
           /\ pc = "done" => (result[1][1] = LowerStated /\ result[2][1] = UpperStated)

\* estimate_theta has returned a finite lower bound, the smallest in-range
\* theta, with a smaller important theta out of range.
C2_Witness ==
    /\ BoundsFound
    /\ pc = "done"
    /\ IsFinite(result[1][1])
    /\ \E n \in 1..Len(frame.important_thetas) :
           /\ ~frame.inrange[n]
           /\ FLt(frame.important_thetas[n], result[1][1])

\* ------------------------------------------------------------------------
\* estimate_theta: lambda_range a single point (lines 528-594)
\* ------------------------------------------------------------------------
\* estimate_theta has found its bounds for a lambda_range [c, c] with c other
\* than lambda_star.
PointRange == BoundsFound /\ lambda_range[1] = lambda_range[2]

\* The values of the important thetas that are in range.
InRangeValues == {frame.important_thetas[n] : n \in InRangeAt}

\* The in-range value v lies strictly between two important thetas.
Interior(v) ==
    /\ \E n \in 1..Len(frame.important_thetas) : FLt(frame.important_thetas[n], v)
    /\ \E n \in 1..Len(frame.important_thetas) : FGt(frame.important_thetas[n], v)

\* C3 as stated: for a lambda_range [c, c] with c other than lambda_star,
\* estimate_theta returns theta_lower = theta_upper.
C3_SingleTheta ==
    (PointRange /\ pc = "done") => result[1][1] = result[2][1]

\* C3, amended: for a lambda_range [c, c] with c other than lambda_star,
\* theta_lower = theta_upper when the important thetas in range, all finite,
\* have one value that is neither the smallest nor the largest important
\* theta; when they have several values, theta_lower < theta_upper.
C3_SingleThetaIfOneInRange ==
    (PointRange /\ InRangeAt # {} /\ \A v \in InRangeValues : IsFinite(v))
        => /\ \A v \in InRangeValues :
                  (InRangeValues = {v} /\ Interior(v))
                      => /\ frame.theta_estimate[1][1] = v
                         /\ frame.theta_estimate[2][1] = v
                         /\ pc = "done" => (result[1][1] = v /\ result[2][1] = v)
           /\ Cardinality(InRangeValues) > 1
                  => /\ FLt(frame.theta_estimate[1][1], frame.theta_estimate[2][1])
                     /\ pc = "done" => FLt(result[1][1], result[2][1])

\* estimate_theta has returned one finite theta as both bounds for a
\* lambda_range of a single point.
C3_Witness ==
    /\ PointRange
    /\ pc = "done"
    /\ Cardinality(InRangeValues) = 1
    /\ IsFinite(result[1][1])
    /\ result[1][1] = result[2][1]
    /\ result[1][1] \in InRangeValues

\* ------------------------------------------------------------------------
\* estimate_model: moments that check_moments rejects (lines 291-303)
\* ------------------------------------------------------------------------
\* check_moments has returned for the moment vector of the call.
MomentsChecked ==
    /\ op = "estimate_model"
    /\ pc # "call"
    /\ calls.check_moments = 1
    /\ simplify_moments(moment_vector).exc = "none"

\* What check_moments reports: invalid, or valid and unidentified.
ReportedInvalid == ~check_moments(moment_vector).valid

ReportedUnidentified ==
    /\ check_moments(moment_vector).valid
    /\ ~check_moments(moment_vector).identified

\* A matrix of 5 rows and 1 + m columns of NaN.
AllNaN(matrix) ==
    /\ Len(matrix) = 5
    /\ \A r \in 1..5 :
           /\ Len(matrix[r]) = Len(moment_vector) + 1
           /\ \A c \in 1..Len(matrix[r]) : IsNaN(matrix[r][c])

\* C4: when check_moments reports the moments invalid or the model
\* unidentified, estimate_model returns a matrix of 5 rows and 1 + m columns
\* that are all NaN, without estimating a parameter, finding segments,
\* finding a root or taking a difference quotient.
C4_AllNaN ==
    (MomentsChecked /\ (ReportedInvalid \/ ReportedUnidentified))
        => /\ pc = "done"
           /\ exc = "none"
           /\ AllNaN(result)
           /\ calls = [NoCalls EXCEPT !.check_moments = 1]

\* estimate_model has returned for valid moments of an unidentified model.
C4_Witness ==
    /\ MomentsChecked
    /\ ReportedUnidentified
    /\ pc = "done"
    /\ AllNaN(result)

\* ------------------------------------------------------------------------
\* estimate_model: exceptions (lines 257-331)
\* ------------------------------------------------------------------------
\* The length of moment_vector is k * (k + 1) / 2 - 1 for a k >= 4.
StructurallyValid ==
    /\ LengthAssertion(Len(moment_vector), KOfLen(Len(moment_vector)))
    /\ KOfLen(Len(moment_vector)) >= 4

\* C5: for a moment vector of a structurally valid length and a validated
\* lambda_range, estimate_model never raises an exception.
C5_NeverRaises ==
    (op = "estimate_model" /\ StructurallyValid)
        => (pc # "raised" /\ exc = "none")

\* ------------------------------------------------------------------------
\* bracket_theta_star finds no bracket (lines 354-371, 485-487)
\* ------------------------------------------------------------------------
NoGoodBracketWarning == "Unable to find a good bracket for theta_star"

\* theta_star is finite and lies inside the starting grid of
\* estimate_theta_segments.
InsideGrid ==
    /\ IsFinite(thetastar(moment_vector))
    /\ Position(StartGrid(ThetaMax(SM(moment_vector))), thetastar(moment_vector))
           \in 1..(imax - 1)

\* The loop of bracket_theta_star runs on the moments sm and no trial
\* qualifies.
NoneQualifies(sm) ==
    /\ ~FEq(sm[3], FDiv(FMul(sm[6], sm[2]), sm[5]))
    /\ GoodTrials(ThetaStar(sm),
                  TrueLimit(FSign(FSub(sm[3], FDiv(FMul(sm[6], sm[2]), sm[5])))),
                  sm) = {}

\* The grid points at the positions i and i + 1 of thetavec are those of the
\* starting grid.
NeighboursKept(thetavec, i) ==
    /\ thetavec[i] = StartGrid(ThetaMax(SM(moment_vector)))[i]
    /\ thetavec[i + 1] = StartGrid(ThetaMax(SM(moment_vector)))[i + 1]

\* C21: when none of the 100 candidates qualifies, bracket_theta_star warns
\* 'Unable to find a good bracket for theta_star' and returns None;
\* estimate_theta_segments then keeps the two grid points next to theta_star
\* as they were and goes on to its end without raising.
C21_NoBracket ==
    /\ (op = "bracket_theta_star" /\ pc = "done" /\ frame # <<>> /\ Qualifying = {})
           => /\ result = <<>>
              /\ warnings = <<NoGoodBracketWarning>>
    /\ (/\ op = "estimate_theta_segments"
        /\ pc # "call"
        /\ InsideGrid
        /\ NoneQualifies(SM(moment_vector)))
           => /\ warnings = <<NoGoodBracketWarning>>
              /\ calls.bracket_theta_star = 1
              /\ exc = "none"
              /\ pc \in {"ts_refine", "done"}
              /\ frame.locals.thetavec = StartGrid(ThetaMax(SM(moment_vector)))
              /\ NeighboursKept(frame.ref.thetavec, frame.locals.i)
              /\ pc = "done" => NeighboursKept(result[2], frame.locals.i)

\* estimate_theta_segments has returned after a search for a bracket in
\* which no candidate qualified.
C21_Witness ==
    /\ op = "estimate_theta_segments"
    /\ pc = "done"
    /\ InsideGrid
    /\ NoneQualifies(SM(moment_vector))
    /\ warnings = <<NoGoodBracketWarning>>
    /\ NeighboursKept(result[2], frame.locals.i)

\* ------------------------------------------------------------------------
\* estimate_theta_segments: what theta_segments holds (lines 417-433)
\* ------------------------------------------------------------------------
\* estimate_theta_segments has returned.
SegmentsReturned == op = "estimate_theta_segments" /\ pc = "done"

Ascending(vec) == \A n \in 1..(Len(vec) - 1) : FLe(vec[n], vec[n + 1])

Contains(vec, x) == \E n \in 1..Len(vec) : vec[n] = x

\* theta_star is finite and strictly between -thetamax and thetamax.
InsideLimits ==
    /\ IsFinite(thetastar(moment_vector))
    /\ FLt(FNeg(ThetaMax(SM(moment_vector))), thetastar(moment_vector))
    /\ FLt(thetastar(moment_vector), ThetaMax(SM(moment_vector)))

\* theta_segments holds the limits, the refined optima and, for a theta_star
\* inside the limits, the two points of the returned grid around theta_star.
SegmentsComplete(segs, grid) ==
    /\ Ascending(segs)
    /\ Contains(segs, FNeg(ThetaMax(SM(moment_vector))))
    /\ Contains(segs, ThetaMax(SM(moment_vector)))
    /\ \A j \in 1..Len(grid) :
           (frame.locals.localmin[j] \/ frame.locals.localmax[j])
               => Contains(segs, grid[j])
    /\ InsideLimits
           => /\ Contains(segs,
                          grid[CountLess(grid, thetastar(moment_vector))])
              /\ Contains(segs,
                          grid[CountLess(grid, thetastar(moment_vector)) + 1])

\* C22: whenever estimate_theta_segments returns, theta_segments is sorted
\* ascending and holds -thetamax and thetamax, the refined optima and, for a
\* finite theta_star inside (-thetamax, thetamax), the two grid points that
\* bracket theta_star.
C22_SegmentsComplete ==
    SegmentsReturned => SegmentsComplete(result[1], result[2])

\* It does so whenever theta_star lies inside the limits.
C22_CompleteInside ==
    (SegmentsReturned /\ InsideLimits) => SegmentsComplete(result[1], result[2])

\* ------------------------------------------------------------------------
\* estimate_theta: where the roots are looked for (lines 525-559)
\* ------------------------------------------------------------------------
\* The pair of segment boundaries (lo, hi) straddles theta_star.
Straddles(lo, hi, theta_star) ==
    /\ IsFinite(theta_star)
    /\ FLt(lo, theta_star)
    /\ FGt(hi, theta_star)

\* b lies strictly between x and y.
StrictlyBetween(b, x, y) ==
    \/ FLt(x, b) /\ FLt(b, y)
    \/ FLt(y, b) /\ FLt(b, x)

\* The root-finder is to run on (lo, hi) for the endpoint b.
RootSought(lo, hi, b) ==
    /\ ~Straddles(lo, hi, frame.theta_star)
    /\ StrictlyBetween(b, lambdafast(<<lo>>, simplified_moments)[1],
                       lambdafast(<<hi>>, simplified_moments)[1])

\* The roots that are to be recorded for the pair (lo, hi), in the order of
\* the endpoints of lambda_range.
RootsSought(lo, hi) ==
    (IF RootSought(lo, hi, lambda_range[1])
     THEN <<zbrent(lo, hi, Tol200, lambda_range[1], simplified_moments).solution>>
     ELSE <<>>)
    \o (IF RootSought(lo, hi, lambda_range[2])
        THEN <<zbrent(lo, hi, Tol200, lambda_range[2], simplified_moments).solution>>
        ELSE <<>>)

\* One step of estimate_theta in its loop over the segments, or leaving it.
C23_Step ==
    /\ (pc = "et_segments" /\ frame.i < Len(theta_segments))
           => /\ frame'.important_thetas =
                     frame.important_thetas
                         \o RootsSought(theta_segments[frame.i],
                                        theta_segments[frame.i + 1])
              /\ calls'.zbrent - calls.zbrent =
                     Len(frame'.important_thetas) - Len(frame.important_thetas)
              /\ frame'.k = frame.k + (calls'.zbrent - calls.zbrent)
    /\ (pc = "et_segments" /\ frame.i >= Len(theta_segments))
           => /\ frame'.important_thetas = frame.important_thetas \o theta_segments
              /\ frame.k = Len(frame.important_thetas) + 1
              /\ calls'.zbrent = calls.zbrent

\* C23: estimate_theta runs zbrent on a pair of consecutive segment
\* boundaries (lo, hi) for an endpoint b of lambda_range exactly when the
\* pair does not straddle theta_star and b lies strictly between lambda(lo)
\* and lambda(hi); each root found is appended to the important thetas, and
\* so is every segment boundary after the loop.
C23_RootsSought == [][C23_Step]_vars

\* A root has been recorded although one pair of boundaries straddles
\* theta_star, and the boundaries have been appended.
C23_Witness ==
    /\ op = "estimate_theta"
    /\ pc = "et_gradient"
    /\ frame.k > 1
    /\ \E i \in 1..(Len(theta_segments) - 1) :
           Straddles(theta_segments[i], theta_segments[i + 1], frame.theta_star)
    /\ Len(frame.important_thetas) = frame.k - 1 + Len(theta_segments)

\* ------------------------------------------------------------------------
\* estimate_theta: which important thetas are in range (lines 556-586)
\* ------------------------------------------------------------------------
\* The number of roots among the important thetas: they come first.
RootsFound == Len(frame.important_thetas) - Len(theta_segments)

\* lambda at the important theta n is within 0.001 of lambda_range.
LambdaWithin(n) ==
    /\ FGe(lambdafast(<<frame.important_thetas[n]>>, simplified_moments)[1],
           FSub(lambda_range[1], Thousandth))
    /\ FLe(lambdafast(<<frame.important_thetas[n]>>, simplified_moments)[1],
           FAdd(lambda_range[2], Thousandth))

\* C24: an important theta is in range exactly when it is one of the roots
\* that zbrent returned, the first k - 1 entries, or its lambda lies in
\* [lambda_L - 0.001, lambda_H + 0.001]; so when a root was found neither
\* bound of theta is NaN.
C24_InRange ==
    BoundsFound
        => /\ Len(frame.inrange) = Len(frame.important_thetas)
           /\ \A n \in 1..Len(frame.important_thetas) :
                  frame.inrange[n] <=> (n <= RootsFound \/ LambdaWithin(n))
           /\ RootsFound >= 1
                  => /\ ~IsNaN(frame.theta_estimate[1][1])
                     /\ ~IsNaN(frame.theta_estimate[2][1])
                     /\ pc = "done" => (~IsNaN(result[1][1]) /\ ~IsNaN(result[2][1]))

\* estimate_theta has returned bounds after finding a root, with a segment
\* boundary in range and another one out of range.
C24_Witness ==
    /\ BoundsFound
    /\ pc = "done"
    /\ RootsFound >= 1
    /\ \E n \in (RootsFound + 1)..Len(frame.important_thetas) : frame.inrange[n]
    /\ \E n \in (RootsFound + 1)..Len(frame.important_thetas) : ~frame.inrange[n]
    /\ ~IsNaN(result[1][1])
    /\ ~IsNaN(result[2][1])

\* ------------------------------------------------------------------------
\* The step sizes of the gradient loops
\* ------------------------------------------------------------------------
\* This step leaves the loop over the step sizes h (line 952 of
\* estimate_parameter, line 618 of estimate_theta) without raising.
GradientLeft ==
    \/ pc = "parameter_tableau" /\ pc' \in {"parameters", "segments"}
    \/ pc = "et_tableau" /\ pc' \in {"et_gradient", "done"}

\* The gradient that the loop has left in fr: in parameter_estimate, or in
\* the row j of theta_estimate.
GradientOf(fr, j) ==
    IF "func" \in DOMAIN fr THEN Tail(fr.parameter_estimate)
    ELSE Tail(fr.theta_estimate[j])

\* The warning of line 1013, or of line 714.
InaccurateSE(fr) ==
    IF "func" \in DOMAIN fr THEN ParamWarning(fr.func)
    ELSE "Inaccurate SE for thetaL/H. Try normalizing variables."

\* The passes of t whose errmax no other pass of t undercuts.
LeastBad(t) ==
    {n \in 1..Len(t) : \A q \in 1..Len(t) : ~FLt(t[q].errmax, t[n].errmax)}

\* The step sizes 0.1, 0.01, ... were tried in that order, none before the
\* last one had errmax below 0.01, and the last one either has (no warning)
\* or is the tenth (one warning); kept tells which passes' gradient may be
\* the one returned when the warning is issued.
StepSizesTried(t, kept) ==
    /\ Len(t) \in 1..nmax
    /\ \A n \in 1..(Len(t) - 1) : ~FLt(t[n].errmax, Hundredth)
    /\ IF FLt(t[Len(t)].errmax, Hundredth)
       THEN /\ warnings' = warnings
            /\ GradientOf(frame', frame.j) = t[Len(t)].gradient
       ELSE /\ Len(t) = nmax
            /\ warnings' = Append(warnings, InaccurateSE(frame))
            /\ \E n \in kept : GradientOf(frame', frame.j) = t[n].gradient

C25_LeastBadStep == GradientLeft => StepSizesTried(frame'.tried, LeastBad(frame'.tried))

\* C25 as stated: the step sizes are tried in order, the first one with
\* errmax below 0.01 is accepted without a warning, and when none is the
\* warning is issued once and the gradient returned is that of a step size
\* with the smallest errmax of the ten.
C25_LeastBad == [][C25_LeastBadStep]_vars

C25_LastStep == GradientLeft => StepSizesTried(frame'.tried, {nmax})

\* C25: the step sizes are tried in order, the first one with errmax below
\* 0.01 is accepted without a warning, and when none is the warning is
\* issued once and the gradient returned is that of the last step size,
\* h = 0.1 ** nmax.
C25_LastTried == [][C25_LastStep]_vars

\* All ten step sizes were tried, the warning was issued, and an earlier step
\* size had a smaller errmax and another gradient than the last one.
C25_Witness ==
    /\ "tried" \in DOMAIN frame
    /\ Len(frame.tried) = nmax
    /\ pc \in {"parameters", "segments", "et_gradient", "done"}
    /\ \E w \in DOMAIN warnings : warnings[w] = InaccurateSE(frame)
    /\ \E n \in 1..(nmax - 1) :
           /\ FLt(frame.tried[n].errmax, frame.tried[nmax].errmax)
           /\ frame.tried[n].gradient # frame.tried[nmax].gradient

\* ------------------------------------------------------------------------
\* What the callers of estimate_model unpack
\* ------------------------------------------------------------------------
\* Line 1475 of RCR.fit (and lines 32-87 of test_em.py, line 1940):
\* (result_matrix, thetavec, lambdavec) = value iterates value, the rows of
\* an ndarray or the elements of a tuple, and raises ValueError unless there
\* are three of them.
UnpackThree(value) == IF Len(value) = 3 THEN "none" ELSE "ValueError"

\* estimate_model has returned.
ModelReturned == op = "estimate_model" /\ pc = "done"

\* C26: whatever estimate_model returns, unpacking it into three values does
\* not fail.
C26_ThreeValues == ModelReturned => UnpackThree(result) = "none"

\* estimate_model returns the triple whenever it gets past check_moments.
C26_TripleIfIdentified ==
    ModelReturned /\ calls.estimate_parameter > 0 => UnpackThree(result) = "none"

\* ------------------------------------------------------------------------
\* The assertions of estimate_theta_segments
\* ------------------------------------------------------------------------
\* One of the assertions of lines 371-372 has failed on the pair that
\* bracket_theta_star returned.
AssertionFailed == exc = "AssertionError" /\ calls.bracket_theta_star > 0

\* C27: after the two grid points around a finite theta_star inside the
\* grid are replaced by the pair of bracket_theta_star, the assertions
\* thetavec[i-2] < thetavec[i-1] and thetavec[i] < thetavec[i+1] hold.
C27_AssertionsHold == ~AssertionFailed

\* ------------------------------------------------------------------------
\* dfridr in estimate_theta
\* ------------------------------------------------------------------------
\* Line 664 (or 699) of estimate_theta has read a dfridr that no turn of the
\* loop of line 635 (677) had assigned.
DfridrUnassigned ==
    /\ exc = "UnboundLocalError"
    /\ calls.estimate_theta > 0
    /\ "dfridr" \in DOMAIN frame
    /\ ~frame.dfridr.set

\* C28: estimate_theta assigns dfridr before it reads it, whatever the
\* error estimates are.
C28_DfridrAssigned == ~DfridrUnassigned

\* ------------------------------------------------------------------------
\* The two bounds that estimate_theta returns
\* ------------------------------------------------------------------------
\* estimate_theta has returned theta_estimate.
ThetaReturned == op = "estimate_theta" /\ pc = "done"

\* theta_lower and theta_upper of the theta_estimate returned.
ThetaLower == result[1][1]
ThetaUpper == result[2][1]

\* C29: of the theta_estimate returned theta_lower is NaN if and only if
\* theta_upper is, and otherwise theta_lower <= theta_upper.
C29_BoundsOrdered ==
    ThetaReturned =>
        /\ IsNaN(ThetaLower) <=> IsNaN(ThetaUpper)
        /\ ~IsNaN(ThetaLower) => FLe(ThetaLower, ThetaUpper)

\* Two finite bounds, the lower one strictly below the upper one, have been
\* returned after the search of the segments.
C29_Witness ==
    /\ ThetaReturned
    /\ calls.zbrent > 0
    /\ IsFinite(ThetaLower)
    /\ IsFinite(ThetaUpper)
    /\ FLt(ThetaLower, ThetaUpper)

\* ------------------------------------------------------------------------
\* The brackets that estimate_theta passes to zbrent
\* ------------------------------------------------------------------------
\* fa and fb of lines 1110-1111 for the bracket (lo, hi) and the endpoint b
\* of lambda_range.
EndValues(lo, hi, b) ==
    <<lambda_minus_lambda(lo, b, simplified_moments),
      lambda_minus_lambda(hi, b, simplified_moments)>>

\* Neither value is NaN and one is below zero, the other above.
OppositeSigns(f) ==
    /\ ~IsNaN(f[1])
    /\ ~IsNaN(f[2])
    /\ \/ FLt(f[1], Zero) /\ FGt(f[2], Zero)
       \/ FGt(f[1], Zero) /\ FLt(f[2], Zero)

\* The calls of zbrent that the turn of the loop of line 528 makes for the
\* segment i.
ZbrentCalls(i) ==
    SegmentRoots(i, frame.theta_star, lambda_range, theta_segments, simplified_moments)

C30_Step ==
    (pc = "et_segments" /\ frame.i < Len(theta_segments))
        => /\ calls'.zbrent - calls.zbrent = Len(ZbrentCalls(frame.i))
           /\ \A q \in 1..Len(ZbrentCalls(frame.i)) : ~ZbrentCalls(frame.i)[q].unbracketed
           /\ \A j \in 1..2 :
                  RootSought(theta_segments[frame.i], theta_segments[frame.i + 1],
                             lambda_range[j])
                      => OppositeSigns(EndValues(theta_segments[frame.i],
                                                 theta_segments[frame.i + 1],
                                                 lambda_range[j]))

\* C30: every bracket that estimate_theta passes to zbrent has values of
\* lambda(theta) - bound at its ends that are not NaN and of strictly
\* opposite signs, and no call finds its root not bracketed.
C30_Bracketed == [][C30_Step]_vars

\* estimate_theta has called zbrent, and one of the segments is not to be
\* searched for the lower endpoint of lambda_range.
C30_Witness ==
    /\ op = "estimate_theta"
    /\ pc = "et_segments"
    /\ calls.zbrent > 0
    /\ Len(frame.important_thetas) = calls.zbrent
    /\ \E i \in 1..(Len(theta_segments) - 1) :
           ~RootSought(theta_segments[i], theta_segments[i + 1], lambda_range[1])

Init == InitSM
Next == NextSM
Spec == Init /\ [][Next]_vars
====
